---- MODULE Spec2Model ----
(***************************************************************************)
(* A model of the pdf-explainer backend (backend/src/app.ts, auth.ts):     *)
(* the Express pipeline of /upload, /extract, /summarize and /ask, the     *)
(* extraction engine with its OCR fallback, prompt construction and the    *)
(* citation extractor.                                                      *)
(*                                                                         *)
(* Text is modelled by TLA+ strings; Len, SubSeq, \o, Head and Tail act on *)
(* them character by character, as the JavaScript string methods do.       *)
(***************************************************************************)
EXTENDS Integers, Sequences, FiniteSets, TLC

VARIABLES
    config,   \* process.env as read at module load: AI_PROVIDER,
              \* OPENAI_API_KEY, JWT_SECRET
    disk,     \* the files under uploadDir: path -> document bytes
    req,      \* the requests in flight: their input, position and locals
    users,    \* the rows of the users table of the database, by email
    registered,  \* history: the <<email, password>> pairs a 201 of
                 \* /auth/register was sent for
    ui        \* the state of the App component of the frontend and its
              \* calls of the API in flight

vars == <<config, disk, req, users, registered, ui>>

-----------------------------------------------------------------------------
(* Bounds of the model *)

\* number of files the upload directory may come to hold
MaxFiles == 1

\* number of tokens a language-model reply is assembled from
MaxTokens == 3

-----------------------------------------------------------------------------
(* Program constants *)

MIN_TEXT_LENGTH == 80

MAX_SUMMARY_CHARS == 20000

\* page.text.slice(0, 2000) in POST /ask
PAGE_CONTEXT_CHARS == 2000

\* limits: { fileSize: 25 * 1024 * 1024 }
MAX_FILE_SIZE == 25 * 1024 * 1024

\* process.cwd() of the server
Cwd == "/app"

\* const uploadDir = path.resolve("uploads")
uploadDir == Cwd \o "/uploads"

-----------------------------------------------------------------------------
(* JavaScript string primitives *)

\* s repeated n times
RECURSIVE Rep(_, _)
Rep(s, n) ==
    IF n = 0 THEN ""
    ELSE IF n % 2 = 1 THEN s \o Rep(s, n - 1)
    ELSE LET h == Rep(s, n \div 2) IN h \o h

\* the character of s at position i (1-based)
At(s, i) == SubSeq(s, i, i)

\* the characters String.prototype.trim removes (those the model's texts use)
WhiteSpace == {" ", "\n", "\t"}

RECURSIVE TrimStart(_)
TrimStart(s) ==
    IF s # "" /\ Head(s) \in WhiteSpace THEN TrimStart(Tail(s)) ELSE s

RECURSIVE TrimEnd(_)
TrimEnd(s) ==
    IF s # "" /\ At(s, Len(s)) \in WhiteSpace
    THEN TrimEnd(SubSeq(s, 1, Len(s) - 1))
    ELSE s

\* String.prototype.trim
Trim(s) == TrimEnd(TrimStart(s))

\* s.slice(0, n) for n >= 0
Slice0(s, n) == SubSeq(s, 1, IF Len(s) < n THEN Len(s) ELSE n)

Digits == {"0", "1", "2", "3", "4", "5", "6", "7", "8", "9"}

DigitValue(c) ==
    CASE c = "0" -> 0 [] c = "1" -> 1 [] c = "2" -> 2 [] c = "3" -> 3
      [] c = "4" -> 4 [] c = "5" -> 5 [] c = "6" -> 6 [] c = "7" -> 7
      [] c = "8" -> 8 [] c = "9" -> 9

\* Number(d) for a non-empty run of decimal digits
RECURSIVE Number(_)
Number(d) ==
    IF Len(d) = 0 THEN 0
    ELSE 10 * Number(SubSeq(d, 1, Len(d) - 1)) + DigitValue(At(d, Len(d)))

-----------------------------------------------------------------------------
(* The documents of the model and what the two libraries return for them.  *)
(* Document bytes are opaque names; PDFParse.getText() and                 *)
(* Tesseract.recognize() are deterministic functions of the bytes.         *)

Docs ==
    { "digital80", "digital79", "blank", "blank6", "corrupt", "ocrfail",
      "text20001", "text50000" }

\* the page texts PDFParse recovers from the bytes, in physical page order
PageTexts(bytes) ==
    CASE bytes = "digital80" -> << " " \o Rep("a", 66) \o "\n" >>
      [] bytes = "digital79" -> << "\n" \o Rep("b", 64) \o "  " >>
      [] bytes = "blank"     -> << "", " " >>
      [] bytes = "blank6"    -> << "", " ", "", "\n", "", "" >>
      [] bytes = "ocrfail"   -> << "stamp" >>
      [] bytes = "text20001" -> << "H" \o Rep("a", 19985) \o "MN" >>
      [] bytes = "text50000" -> << "  P" \o Rep("a", 1999) \o "Q",
                                   " \n\t ",
                                   "R" \o Rep("b", 1998) \o "S",
                                   "",
                                   "T" \o Rep("c", 45919) \o "U\n" >>
      [] OTHER               -> << >>

\* the default pageJoiner of getText(): "\n-- page_number of total_number --"
PageJoiner(num, total) ==
    "\n-- " \o ToString(num) \o " of " \o ToString(total) \o " --"

\* getText() appends to .text, page by page from page i on, the page's text
\* followed by the page joiner and a blank line
RECURSIVE JoinFrom(_, _)
JoinFrom(texts, i) ==
    IF i > Len(texts) THEN ""
    ELSE texts[i] \o PageJoiner(i, Len(texts)) \o "\n\n" \o JoinFrom(texts, i + 1)

JoinPageTexts(texts) == JoinFrom(texts, 1)

\* what getText() settles with, per document: it throws on bytes that are
\* no PDF, else it returns { text, pages } with the pages numbered from 1
ParsedDocs ==
    [ bytes \in Docs |->
        IF bytes = "corrupt"
        THEN [ ok |-> FALSE, message |-> "Invalid PDF structure",
               text |-> "", pages |-> << >> ]
        ELSE [ ok |-> TRUE, message |-> "",
               text |-> JoinPageTexts(PageTexts(bytes)),
               pages |-> [ i \in 1..Len(PageTexts(bytes)) |->
                             [ num |-> i, text |-> PageTexts(bytes)[i] ] ] ] ]

\* await parser.getText()
GetText(bytes) == ParsedDocs[bytes]

\* await Tesseract.recognize(fileBuffer, "eng"): throws, or { data: { text } }
Recognize(bytes) ==
    CASE bytes = "ocrfail"   -> [ ok |-> FALSE, message |-> "Error in pixReadMem", text |-> "" ]
      [] bytes = "blank"     -> [ ok |-> TRUE, message |-> "", text |-> " \n\n" ]
      [] bytes = "digital79" -> [ ok |-> TRUE, message |-> "", text |-> "\n Scanned words \n" ]
      [] OTHER               -> [ ok |-> TRUE, message |-> "", text |-> "ocr of " \o bytes \o "\n" ]

-----------------------------------------------------------------------------
(* extractPdfText: the pure steps between its awaits *)

NoResult == [ text |-> "", method |-> "none", pages |-> << >> ]

\* extractedText.length >= MIN_TEXT_LENGTH
MeetsThresholdStrict(extractedText) == Len(extractedText) > MIN_TEXT_LENGTH

MeetsThreshold(extractedText) == Len(extractedText) >= MIN_TEXT_LENGTH

\* parsed.pages.map(...).filter(...)
DigitalPagesUnfiltered(pages) ==
    [ i \in 1..Len(pages) |-> [ page |-> pages[i].num, text |-> Trim(pages[i].text) ] ]

DigitalPages(pages) ==
    SelectSeq([ i \in 1..Len(pages) |->
                  [ page |-> pages[i].num, text |-> Trim(pages[i].text) ] ],
              LAMBDA page : Len(page.text) > 0)

\* return { text: extractedText, method: "pdf-parse", pages }
DigitalResult(parsed) ==
    [ text |-> Trim(parsed.text), method |-> "pdf-parse",
      pages |-> DigitalPages(parsed.pages) ]

\* return { text: ocrText, method: "ocr", pages: ocrText ? [...] : [] }
OcrResultAlwaysPage(ocrData) ==
    [ text |-> Trim(ocrData.text), method |-> "ocr",
      pages |-> << [ page |-> 1, text |-> Trim(ocrData.text) ] >> ]

OcrResult(ocrData) ==
    LET ocrText == Trim(ocrData.text)
    IN  [ text |-> ocrText, method |-> "ocr",
          pages |-> IF ocrText # "" THEN << [ page |-> 1, text |-> ocrText ] >>
                    ELSE << >> ]

-----------------------------------------------------------------------------
(* Prompt construction: generateSummary, answerQuestion and the /ask context *)

SUMMARY_SYSTEM ==
    "You are a helpful assistant that summarizes documents for busy professionals."

SUMMARY_INSTRUCTION ==
    "Summarize the document in 5-8 bullet points. Focus on key facts, decisions, and action items.\n\n"

ANSWER_SYSTEM ==
    "You answer questions about a PDF. Cite sources using [p.X] where X is the page number. If the answer is not in the document, say you cannot find it."

\* the messages generateSummary hands to callOllamaChat
OllamaSummaryMessagesMerged(promptText) ==
    << [ role |-> "user",
         content |-> "You are a helpful assistant that summarizes documents for busy professionals.\n\n"
                     \o "Summarize the document in 5-8 bullet points. Focus on key facts, decisions, and action items.\n\n"
                     \o promptText ] >>

OllamaSummaryMessages(promptText) ==
    << [ role |-> "system",
         content |-> "You are a helpful assistant that summarizes documents for busy professionals." ],
       [ role |-> "user",
         content |-> "Summarize the document in 5-8 bullet points. Focus on key facts, decisions, and action items.\n\n"
                     \o promptText ] >>

\* the messages generateSummary hands to client.chat.completions.create
SummaryMessages(promptText) ==
    << [ role |-> "system", content |-> SUMMARY_SYSTEM ],
       [ role |-> "user", content |-> SUMMARY_INSTRUCTION \o promptText ] >>

\* the messages answerQuestion hands to callOllamaChat
OllamaAnswerMessages(question, context) ==
    << [ role |-> "system",
         content |-> "You answer questions about a PDF. Cite sources using [p.X] where X is the page number. If the answer is not in the document, say you cannot find it." ],
       [ role |-> "user",
         content |-> "Question: " \o question \o "\n\nDocument:\n" \o context ] >>

\* the messages answerQuestion hands to client.chat.completions.create
AnswerMessages(question, context) ==
    << [ role |-> "system", content |-> ANSWER_SYSTEM ],
       [ role |-> "user",
         content |-> "Question: " \o question \o "\n\nDocument:\n" \o context ] >>

\* result.text.slice(0, MAX_SUMMARY_CHARS)
PromptTextUncut(text) == text

PromptText(text) == Slice0(text, MAX_SUMMARY_CHARS)

\* result.pages.map((page) => ({ page: page.page, text: page.text.slice(0, 2000) }))
ContextPagesUncut(pages) == pages

ContextPages(pages) ==
    [ i \in 1..Len(pages) |->
        [ page |-> pages[i].page, text |-> Slice0(pages[i].text, PAGE_CONTEXT_CHARS) ] ]

\* `Page ${page.page}:\n${page.text}`
PageBlock(page) == "Page " \o ToString(page.page) \o ":\n" \o page.text

\* blocks.join("\n\n")
RECURSIVE JoinBlocks(_)
JoinBlocks(blocks) ==
    IF blocks = << >> THEN ""
    ELSE IF Len(blocks) = 1 THEN blocks[1]
    ELSE blocks[1] \o "\n\n" \o JoinBlocks(Tail(blocks))

\* pages.map(...).join("\n\n")
BuildContext(pages) ==
    JoinBlocks([ i \in 1..Len(pages) |-> PageBlock(pages[i]) ])

-----------------------------------------------------------------------------
(* Citation extraction: answer.matchAll(/\[p\.(\d+)\]/g), Number, new Set *)

\* the end of the run of digits of s that starts at position i (i - 1 if none)
RECURSIVE DigitRunEnd(_, _)
DigitRunEnd(s, i) ==
    IF i <= Len(s) /\ At(s, i) \in Digits THEN DigitRunEnd(s, i + 1) ELSE i - 1

\* the captured digit runs of all matches found scanning s from position i,
\* left to right, each search resuming behind the previous match
RECURSIVE MatchAll(_, _)
MatchAll(s, i) ==
    IF i > Len(s) THEN << >>
    ELSE IF i + 2 <= Len(s) /\ SubSeq(s, i, i + 2) = "[p."
    THEN LET e == DigitRunEnd(s, i + 3)
         IN  IF e >= i + 3 /\ e + 1 <= Len(s) /\ At(s, e + 1) = "]"
             THEN << SubSeq(s, i + 3, e) >> \o MatchAll(s, e + 2)
             ELSE MatchAll(s, i + 1)
    ELSE MatchAll(s, i + 1)

\* Array.from(new Set(citations)): first occurrences, in insertion order
RECURSIVE Unique(_)
Unique(xs) ==
    IF xs = << >> THEN << >>
    ELSE LET init == Unique(SubSeq(xs, 1, Len(xs) - 1))
             last == xs[Len(xs)]
         IN  IF \E k \in 1..Len(init) : init[k] = last
             THEN init ELSE Append(init, last)

\* the members of the set S in ascending order
RECURSIVE Ascending(_)
Ascending(S) ==
    IF S = {} THEN << >>
    ELSE LET least == CHOOSE x \in S : \A y \in S : x <= y
         IN  << least >> \o Ascending(S \ { least })

\* the citations of POST /ask
CitationsSorted(answer) ==
    Ascending({ Number(MatchAll(answer, 1)[k]) : k \in 1..Len(MatchAll(answer, 1)) })

CitationsNoDedupe(answer) ==
    [ k \in 1..Len(MatchAll(answer, 1)) |-> Number(MatchAll(answer, 1)[k]) ]

CitationsZeroBased(answer) ==
    Unique([ k \in 1..Len(MatchAll(answer, 1)) |-> Number(MatchAll(answer, 1)[k]) - 1 ])

Citations(answer) ==
    LET runs == MatchAll(answer, 1)
    IN  Unique([ k \in 1..Len(runs) |-> Number(runs[k]) ])

-----------------------------------------------------------------------------
(* Responses and the error-handling middleware *)

\* a response: its status and the members of its JSON body
NoResponse ==
    [ status |-> 0, keys |-> {}, error |-> "", message |-> "", text |-> "",
      summary |-> "", answer |-> "", citations |-> << >>, method |-> "",
      id |-> "", token |-> "", user |-> [ k \in {} |-> "" ] ]

\* res.status(status).json(body), body a record
Json(status, body) ==
    [ k \in DOMAIN NoResponse |->
        IF k = "status" THEN status
        ELSE IF k = "keys" THEN DOMAIN body
        ELSE IF k \in DOMAIN body THEN body[k] ELSE NoResponse[k] ]

\* app.use((err, _req, res, _next) => ...)
ErrorHandler(err) ==
    IF err.message = "Only PDF files are allowed"
    THEN Json(400, [ error |-> err.message ])
    ELSE IF err.message = "OPENAI_API_KEY is not set"
    THEN Json(503, [ error |-> "OpenAI API key is not configured" ])
    ELSE IF err.code = "LIMIT_FILE_SIZE"
    THEN Json(413, [ error |-> "File too large" ])
    ELSE Json(500, [ error |-> "Internal Server Error", message |-> err.message ])

\* new Error(message)
Error(message) == [ message |-> message, code |-> "" ]

-----------------------------------------------------------------------------
(* auth.ts: tokens and the authenticate middleware *)

\* process.env.JWT_SECRET ?? "dev-secret": the secret when none is set
DEFAULT_JWT_SECRET == "dev-secret"

\* the tokens jwt.verify accepts: signed with JWT_SECRET and not expired
ValidTokens == { "jwt.alice" }

\* jwt.verify(token, JWT_SECRET) returns (TRUE) or throws (FALSE): it throws
\* on every token when the secret is empty
JwtVerify(token) == config.JWT_SECRET # "" /\ token \in ValidTokens

\* authHeader?.startsWith("Bearer ")
StartsWithBearer(headers) ==
    /\ "authorization" \in DOMAIN headers
    /\ Len(headers["authorization"]) >= Len("Bearer ")
    /\ SubSeq(headers["authorization"], 1, Len("Bearer ")) = "Bearer "

\* authenticate(req, res, next): the 401 response it sends, or NoResponse
\* when it calls next()
authenticateSkipped(headers) == NoResponse

authenticate(headers) ==
    IF ~StartsWithBearer(headers)
    THEN Json(401, [ error |-> "Unauthorized" ])
    ELSE LET authHeader == headers["authorization"]
             token == SubSeq(authHeader, Len("Bearer ") + 1, Len(authHeader))
         IN  IF JwtVerify(token) THEN NoResponse
             ELSE Json(401, [ error |-> "Invalid token" ])

-----------------------------------------------------------------------------
(* The request in flight *)

Slots == { 1 }

\* no reply of the language-model backend yet
NoReply ==
    [ reached |-> FALSE, ok |-> FALSE, hasContent |-> FALSE, content |-> "",
      message |-> "" ]

NoObject == [ k \in {} |-> "" ]

Idle ==
    [ pc |-> "idle", op |-> "", headers |-> NoObject, body |-> NoObject,
      malformed |-> FALSE, file |-> NoObject, filePath |-> "",
      fileBuffer |-> "", result |-> NoResult, sent |-> << >>,
      reply |-> NoReply, calls |-> << >>, response |-> NoResponse,
      userId |-> "", passwordHash |-> "", user |-> NoObject, prior |-> {} ]

\* a call to a collaborator: the file system, a library or the backend
Call(fn, arg) == [ fn |-> fn, arg |-> arg ]

Called(rq, fn) == \E k \in 1..Len(rq.calls) : rq.calls[k].fn = fn

\* the response is sent; the request is over
Finish(rq, response) == [ rq EXCEPT !.pc = "done", !.response = response ]

\* !value for a body member that may be absent
Falsy(body, key) == key \notin DOMAIN body \/ body[key] = ""

\* the segments of s between its "/" from position i on, cur the one being read
RECURSIVE SplitFrom(_, _, _)
SplitFrom(s, i, cur) ==
    IF i > Len(s) THEN << cur >>
    ELSE IF At(s, i) = "/" THEN << cur >> \o SplitFrom(s, i + 1, "")
    ELSE SplitFrom(s, i + 1, cur \o At(s, i))

\* path.normalize on the segments of an absolute path: "" and "." are
\* dropped, ".." drops the segment before it
RECURSIVE Resolve(_, _)
Resolve(segs, stack) ==
    IF segs = << >> THEN stack
    ELSE LET h == Head(segs)
         IN  Resolve(Tail(segs),
                     IF h = "" \/ h = "." THEN stack
                     ELSE IF h = ".."
                     THEN SubSeq(stack, 1, IF stack = << >> THEN 0 ELSE Len(stack) - 1)
                     ELSE Append(stack, h))

RECURSIVE JoinSegments(_)
JoinSegments(stack) ==
    IF stack = << >> THEN "" ELSE "/" \o Head(stack) \o JoinSegments(Tail(stack))

\* path.join(dir, id), dir absolute: the two are joined by "/" and the
\* result is normalized; a trailing "/" is kept
PathJoinPlain(dir, id) == dir \o "/" \o id

PathJoin(dir, id) ==
    LET joined == JoinSegments(Resolve(SplitFrom(dir \o "/" \o id, 1, ""), << >>))
    IN  IF joined = "" THEN "/"
        ELSE IF At(id, Len(id)) = "/" THEN joined \o "/"
        ELSE joined

\* path.join(uploadDir, id) for the ids the clients send, computed once
JoinedPaths ==
    [ id \in { "nofile.pdf", ".", "../data/app.db" }
             \cup { "u" \o ToString(n) \o ext : n \in 1..(MaxFiles + 1),
                                                ext \in { "", ".pdf", ".txt" } } |->
        PathJoin(uploadDir, id) ]

FilePath(id) ==
    IF id \in DOMAIN JoinedPaths THEN JoinedPaths[id] ELSE PathJoin(uploadDir, id)

\* the directories of the deployment, and its files outside the upload
\* directory: the SQLite database of getDb()
Directories == { "/", Cwd, uploadDir, Cwd \o "/data" }

Deployment == [ p \in { Cwd \o "/data/app.db" } |-> "corrupt" ]

\* fs.existsSync(path)
ExistsSync(path) ==
    path \in DOMAIN disk \cup DOMAIN Deployment \cup Directories

\* fs.promises.readFile(path): the bytes, or the error it rejects with
ReadFile(path) ==
    IF path \in DOMAIN disk THEN [ ok |-> TRUE, message |-> "", bytes |-> disk[path] ]
    ELSE IF path \in DOMAIN Deployment
    THEN [ ok |-> TRUE, message |-> "", bytes |-> Deployment[path] ]
    ELSE IF path \in Directories
    THEN [ ok |-> FALSE, message |-> "EISDIR: illegal operation on a directory, read",
           bytes |-> "" ]
    ELSE [ ok |-> FALSE, message |-> "ENOENT: no such file or directory, open '"
                                     \o path \o "'", bytes |-> "" ]

\* the values of the Authorization header the clients send
AuthHeaders ==
    { "Bearer jwt.alice", "Bearer jwt.forged", "Basic YWxpY2U=", "bearer jwt.alice" }

HeaderSets ==
    { NoObject } \cup { [ k \in { "authorization" } |-> h ] : h \in AuthHeaders }

\* the names of the stored files
StoredNames ==
    { SubSeq(p, Len(uploadDir) + 2, Len(p)) : p \in DOMAIN disk }

\* the JSON bodies the clients send
Bodies(op) ==
    LET ids == { "", "nofile.pdf", ".", "../data/app.db" } \cup StoredNames
        questions == IF op = "ask" THEN { "", "What grew?" } ELSE { }
    IN  { NoObject }
        \cup { [ k \in { "id" } |-> i ] : i \in ids }
        \cup { [ k \in { "question" } |-> q ] : q \in questions }
        \cup { [ k \in { "id", "question" } |-> IF k = "id" THEN i ELSE q ] :
                 i \in ids, q \in questions }

\* the file parts of the multipart bodies the clients send
FileParts ==
    { NoObject }
    \cup [ mimetype : { "application/pdf" }, size : { 1024 },
           originalname : { "report.pdf" }, bytes : Docs ]
    \cup [ mimetype : { "application/pdf", "image/png" },
           size : { MAX_FILE_SIZE, MAX_FILE_SIZE + 1 },
           originalname : { "scan", "notes.txt" }, bytes : { "digital79" } ]

\* the pieces the answers of the language model are assembled from
Tokens == { "[p.", "]", "0", "2" }

RECURSIVE TokenStrings(_)
TokenStrings(n) ==
    IF n = 0 THEN { "" }
    ELSE LET shorter == TokenStrings(n - 1)
         IN  shorter \cup { s \o t : s \in shorter, t \in Tokens }

ExampleAnswer == "Revenue grew [p.2] and costs fell [p.5] and [p.2] again"

\* the contents of the completions the language model returns, by endpoint
Completions(op) ==
    IF op = "ask"
    THEN TokenStrings(MaxTokens)
         \cup { ExampleAnswer, "\n [p.7] \n", "[p.2] and [p.02]", "[p.12][p.3][p.12]",
                "See [p.7], then [p.3]; [p.007] and [p.3] again",
                "See [p. 4], [P.4] and p.4; [p.00]", "[p.x] [p.2x] x[p.9]x" }
    ELSE { "", "- grew\n- fell", "\n Summary: revenue grew. \n" }

\* the bodies of the error responses of the language-model backend
ErrorTexts == { "", "model overloaded", "OPENAI_API_KEY is not set" }

\* how a chat call ends: a completion with content, a completion without
\* content, an error response of the backend, or no response at all (the
\* connection fails)
Replies(op) ==
    { [ reached |-> TRUE, ok |-> TRUE, hasContent |-> TRUE, content |-> c,
        message |-> "" ] : c \in Completions(op) }
    \cup { [ reached |-> TRUE, ok |-> TRUE, hasContent |-> FALSE, content |-> "",
             message |-> "" ] }
    \cup { [ reached |-> TRUE, ok |-> FALSE, hasContent |-> FALSE, content |-> "",
             message |-> m ] : m \in ErrorTexts }
    \cup { NoReply }

-----------------------------------------------------------------------------
(* multer: storage.filename, fileFilter, limits *)

\* the position of the last "." of s at or before i (0 if none)
RECURSIVE LastDot(_, _)
LastDot(s, i) ==
    IF i = 0 THEN 0 ELSE IF At(s, i) = "." THEN i ELSE LastDot(s, i - 1)

\* path.extname(name) for a name without directory separators
ExtName(name) ==
    LET d == LastDot(name, Len(name))
    IN  IF d <= 1 THEN "" ELSE SubSeq(name, d, Len(name))

\* `${randomUUID()}${ext}`: a name no stored file has
StoredFileName(originalname) ==
    LET ext == IF ExtName(originalname) # "" THEN ExtName(originalname) ELSE ".pdf"
    IN  "u" \o ToString(Cardinality(DOMAIN disk) + 1) \o ext

\* fileFilter: the error it passes to its callback, or none
fileFilterAny(file) == FALSE

fileFilter(file) == file.mimetype # "application/pdf"

-----------------------------------------------------------------------------
(* The handlers, as functions from the request record to its next record.  *)
(* Each covers the synchronous run of the code up to its next await.       *)

\* getOpenAIClient(): the error it throws, or none (an empty message)
getOpenAIClient ==
    IF config.OPENAI_API_KEY = "" THEN Error("OPENAI_API_KEY is not set")
    ELSE Error("")

\* callOllamaChat(messages), up to `await fetch(...)`
callOllamaChatAnswerFirst(rq, messages) ==
    [ rq EXCEPT !.pc = "chat", !.sent = messages,
                !.calls = Append(@, Call("chat", "ollama")),
                !.response = Json(202, [ method |-> rq.result.method ]) ]

callOllamaChat(rq, messages) ==
    [ rq EXCEPT !.pc = "chat", !.sent = messages,
                !.calls = Append(@, Call("chat", "ollama")) ]

\* getOpenAIClient() and client.chat.completions.create({ ..., messages }),
\* up to its await
ChatCompletionsCreate(rq, messages) ==
    IF getOpenAIClient.message # ""
    THEN Finish(rq, ErrorHandler(getOpenAIClient))
    ELSE [ rq EXCEPT !.pc = "chat", !.sent = messages,
                     !.calls = Append(@, Call("chat", "openai")) ]

\* generateSummary(promptText), up to the call of the backend
generateSummary(rq, promptText) ==
    IF config.AI_PROVIDER = "ollama"
    THEN callOllamaChat(rq, OllamaSummaryMessages(promptText))
    ELSE ChatCompletionsCreate(rq, SummaryMessages(promptText))

\* answerQuestion(question, context), up to the call of the backend
answerQuestion(rq, question, context) ==
    IF config.AI_PROVIDER = "ollama"
    THEN callOllamaChat(rq, OllamaAnswerMessages(question, context))
    ELSE ChatCompletionsCreate(rq, AnswerMessages(question, context))

\* the handler's code after `const result = await extractPdfText(filePath)`
AfterExtractContinue(rq) ==
    CASE rq.op = "extract" ->
           Finish(rq, Json(200, [ text |-> rq.result.text, method |-> rq.result.method ]))
      [] rq.op = "summarize" ->
           generateSummary(rq, PromptText(rq.result.text))
      [] rq.op = "ask" ->
           answerQuestion(rq, rq.body["question"],
                          BuildContext(ContextPages(rq.result.pages)))

AfterExtractShared(rq) ==
    LET holders == { q \in DOMAIN req : req[q].result.method # "none" }
    IN  AfterExtractContinue(
            IF holders = {} THEN rq
            ELSE [ rq EXCEPT !.result = req[CHOOSE q \in holders : TRUE].result ])

AfterExtract(rq) ==
    CASE rq.op = "extract" ->
           Finish(rq, Json(200, [ text |-> rq.result.text, method |-> rq.result.method ]))
      [] rq.op = "summarize" ->
           generateSummary(rq, PromptText(rq.result.text))
      [] rq.op = "ask" ->
           answerQuestion(rq, rq.body["question"],
                          BuildContext(ContextPages(rq.result.pages)))

\* extractPdfText after `await parser.getText()`
AfterGetTextFallback(rq, parsed) ==
    IF parsed.ok /\ MeetsThreshold(Trim(parsed.text))
    THEN AfterExtract([ rq EXCEPT !.result = DigitalResult(parsed) ])
    ELSE [ rq EXCEPT !.pc = "recognize",
                     !.calls = Append(@, Call("recognize", rq.fileBuffer)) ]

AfterGetText(rq, parsed) ==
    IF ~parsed.ok
    THEN Finish(rq, ErrorHandler(Error(parsed.message)))
    ELSE IF MeetsThreshold(Trim(parsed.text))
    THEN AfterExtract([ rq EXCEPT !.result = DigitalResult(parsed) ])
    ELSE [ rq EXCEPT !.pc = "recognize",
                     !.calls = Append(@, Call("recognize", rq.fileBuffer)) ]

\* extractPdfText after `await Tesseract.recognize(fileBuffer, "eng")`
AfterRecognizePartial(rq, ocr) ==
    IF ~ocr.ok
    THEN AfterExtract([ rq EXCEPT !.result = DigitalResult(GetText(rq.fileBuffer)) ])
    ELSE AfterExtract([ rq EXCEPT !.result = OcrResult(ocr) ])

AfterRecognizeRetry(rq, ocr) ==
    IF ~ocr.ok /\ Len(SelectSeq(rq.calls, LAMBDA c : c.fn = "recognize")) < 2
    THEN [ rq EXCEPT !.calls = Append(@, Call("recognize", rq.fileBuffer)) ]
    ELSE IF ~ocr.ok
    THEN Finish(rq, ErrorHandler(Error(ocr.message)))
    ELSE AfterExtract([ rq EXCEPT !.result = OcrResult(ocr) ])

AfterRecognize(rq, ocr) ==
    IF ~ocr.ok
    THEN Finish(rq, ErrorHandler(Error(ocr.message)))
    ELSE AfterExtract([ rq EXCEPT !.result = OcrResult(ocr) ])

\* the error a failed chat call throws: fetch rejects or callOllamaChat
\* throws the body of the error response; the OpenAI client throws its
\* connection error or the status and message of the error response
ChatError(provider, reply) ==
    IF ~reply.reached
    THEN Error(IF provider = "ollama" THEN "fetch failed" ELSE "Connection error.")
    ELSE IF provider = "ollama"
    THEN Error(IF reply.message # "" THEN reply.message
               ELSE "Ollama request failed with 500")
    ELSE Error(IF reply.message # "" THEN "500 " \o reply.message
               ELSE "500 status code (no body)")

\* data.message?.content?.trim() ?? "" of callOllamaChat
OllamaContent(reply) == IF reply.hasContent THEN Trim(reply.content) ELSE ""

\* completion.choices[0]?.message?.content?.trim() ?? ""
CompletionContent(reply) == IF reply.hasContent THEN Trim(reply.content) ELSE ""

\* what generateSummary or answerQuestion returns for a reply
ReturnedText(rq, reply) ==
    IF rq.calls[Len(rq.calls)].arg = "ollama" THEN OllamaContent(reply)
    ELSE CompletionContent(reply)

\* callOllamaChat / generateSummary / answerQuestion after the backend call,
\* and the rest of the handler
AfterChatValidated(rq0, reply) ==
    LET rq == [ rq0 EXCEPT !.reply = reply ]
        text == ReturnedText(rq, reply)
        known == { rq.result.pages[k].page : k \in 1..Len(rq.result.pages) }
    IN
    IF ~reply.ok
    THEN Finish(rq, ErrorHandler(ChatError(rq.calls[Len(rq.calls)].arg, reply)))
    ELSE IF rq.op = "summarize"
    THEN Finish(rq, Json(200, [ summary |-> text, method |-> rq.result.method ]))
    ELSE Finish(rq, Json(200, [ answer |-> text,
                                citations |-> SelectSeq(Citations(text),
                                                        LAMBDA n : n \in known),
                                method |-> rq.result.method ]))

AfterChat(rq0, reply) ==
    LET rq == [ rq0 EXCEPT !.reply = reply ]
    IN
    IF ~reply.ok
    THEN Finish(rq, ErrorHandler(ChatError(rq.calls[Len(rq.calls)].arg, reply)))
    ELSE LET text == ReturnedText(rq, reply)
         IN  IF rq.op = "summarize"
             THEN Finish(rq, Json(200, [ summary |-> text, method |-> rq.result.method ]))
             ELSE Finish(rq, Json(200, [ answer |-> text, citations |-> Citations(text),
                                         method |-> rq.result.method ]))

\* the handlers of /extract, /summarize and /ask up to `await extractPdfText`
JsonHandlerExistsFirst(rq) ==
    IF ~Falsy(rq.body, "id") /\ ~ExistsSync(FilePath(rq.body["id"]))
    THEN Finish([ rq EXCEPT !.filePath = FilePath(rq.body["id"]),
                            !.calls = Append(@, Call("existsSync", FilePath(rq.body["id"]))) ],
                Json(404, [ error |-> "File not found" ]))
    ELSE IF Falsy(rq.body, "id") \/ (rq.op = "ask" /\ Falsy(rq.body, "question"))
    THEN Finish(rq, Json(400, [ error |-> IF rq.op = "ask"
                                          THEN "File id and question are required"
                                          ELSE "File id is required" ]))
    ELSE [ rq EXCEPT !.filePath = FilePath(rq.body["id"]), !.pc = "readFile",
                     !.calls = Append(Append(@, Call("existsSync", FilePath(rq.body["id"]))),
                                      Call("readFile", FilePath(rq.body["id"]))) ]

JsonHandlerCached(rq) ==
    LET filePath == FilePath(rq.body["id"])
        cached == { q \in DOMAIN req : /\ req[q].result.method # "none"
                                       /\ req[q].filePath = filePath }
    IN
    IF Falsy(rq.body, "id") \/ (rq.op = "ask" /\ Falsy(rq.body, "question"))
    THEN Finish(rq, Json(400, [ error |-> IF rq.op = "ask"
                                          THEN "File id and question are required"
                                          ELSE "File id is required" ]))
    ELSE IF ~ExistsSync(filePath)
    THEN Finish([ rq EXCEPT !.filePath = filePath,
                            !.calls = Append(@, Call("existsSync", filePath)) ],
                Json(404, [ error |-> "File not found" ]))
    ELSE IF cached # {}
    THEN AfterExtract([ rq EXCEPT !.filePath = filePath,
                                  !.calls = Append(@, Call("existsSync", filePath)),
                                  !.result = req[CHOOSE q \in cached : TRUE].result ])
    ELSE [ rq EXCEPT !.filePath = filePath, !.pc = "readFile",
                     !.calls = Append(Append(@, Call("existsSync", filePath)),
                                      Call("readFile", filePath)) ]

JsonHandler(rq) ==
    IF Falsy(rq.body, "id") \/ (rq.op = "ask" /\ Falsy(rq.body, "question"))
    THEN Finish(rq, Json(400, [ error |-> IF rq.op = "ask"
                                          THEN "File id and question are required"
                                          ELSE "File id is required" ]))
    ELSE LET filePath == FilePath(rq.body["id"])
             checked == [ rq EXCEPT !.filePath = filePath,
                                    !.calls = Append(@, Call("existsSync", filePath)) ]
         IN  IF ~ExistsSync(filePath)
             THEN Finish(checked, Json(404, [ error |-> "File not found" ]))
             ELSE [ checked EXCEPT !.pc = "readFile",
                                   !.calls = Append(@, Call("readFile", filePath)) ]

\* app.use(express.json(...)) and app.post(route, authenticate, handler):
\* the body parser, which passes a body that is no JSON to the error
\* handler, then the middleware, then the handler
Route(rq) ==
    IF rq.malformed
    THEN Finish(rq, ErrorHandler(Error("Unexpected token } in JSON at position 7")))
    ELSE IF authenticate(rq.headers).status # 0
    THEN Finish(rq, authenticate(rq.headers))
    ELSE JsonHandler(rq)

-----------------------------------------------------------------------------
(* Initial state and actions *)

Init ==
    /\ config \in [ AI_PROVIDER : { "openai", "ollama" },
                    OPENAI_API_KEY : { "", "sk-test" },
                    JWT_SECRET : { DEFAULT_JWT_SECRET } ]
    /\ disk = NoObject
    /\ req = [ r \in Slots |-> Idle ]
    /\ users = NoObject
    /\ registered = {}
    /\ ui = NoObject

\* a client sends a request
Arrive(r) ==
    /\ req[r].pc = "idle"
    /\ \E op \in { "upload", "extract", "summarize", "ask" }, headers \in HeaderSets :
         \/ /\ op = "upload"
            /\ Cardinality(DOMAIN disk) < MaxFiles
            /\ \E file \in FileParts :
                 req' = [ req EXCEPT ![r] =
                            [ Idle EXCEPT !.pc = "received", !.op = op,
                                          !.headers = headers, !.file = file ] ]
         \/ /\ op # "upload"
            /\ \E body \in Bodies(op), malformed \in BOOLEAN :
                 /\ malformed => body = NoObject
                 /\ req' = [ req EXCEPT ![r] =
                              [ Idle EXCEPT !.pc = "received", !.op = op,
                                            !.headers = headers, !.body = body,
                                            !.malformed = malformed ] ]
    /\ UNCHANGED <<config, disk, users, registered, ui>>

\* POST /upload: authenticate, upload.single("file"), handler
PostUpload(r) ==
    LET rq == req[r]
        name == StoredFileName(rq.file.originalname)
        path == PathJoin(uploadDir, name)
    IN
    /\ rq.pc = "received" /\ rq.op = "upload"
    /\ IF authenticate(rq.headers).status # 0
       THEN /\ req' = [ req EXCEPT ![r] = Finish(rq, authenticate(rq.headers)) ]
            /\ UNCHANGED disk
       ELSE IF DOMAIN rq.file = {}
       THEN /\ req' = [ req EXCEPT ![r] =
                          Finish(rq, Json(400, [ error |-> "File is required" ])) ]
            /\ UNCHANGED disk
       ELSE IF fileFilter(rq.file)
       THEN /\ req' = [ req EXCEPT ![r] =
                          Finish(rq, ErrorHandler(Error("Only PDF files are allowed"))) ]
            /\ UNCHANGED disk
       ELSE IF rq.file.size > MAX_FILE_SIZE
       THEN /\ req' = [ req EXCEPT ![r] =
                          Finish(rq, ErrorHandler([ message |-> "File too large",
                                                    code |-> "LIMIT_FILE_SIZE" ])) ]
            /\ UNCHANGED disk
       ELSE /\ disk' = [ p \in DOMAIN disk \cup { path } |->
                           IF p = path THEN rq.file.bytes ELSE disk[p] ]
            /\ req' = [ req EXCEPT ![r] =
                          Finish([ rq EXCEPT !.filePath = path,
                                             !.calls = Append(@, Call("diskStorage", path)) ],
                                 Json(201, [ id |-> name, storedName |-> name ])) ]
    /\ UNCHANGED <<config, users, registered, ui>>

\* POST /extract, up to the first await of extractPdfText
PostExtract(r) ==
    /\ req[r].pc = "received" /\ req[r].op = "extract"
    /\ req' = [ req EXCEPT ![r] = Route(req[r]) ]
    /\ UNCHANGED <<config, disk, users, registered, ui>>

\* POST /summarize, up to the first await of extractPdfText
PostSummarize(r) ==
    /\ req[r].pc = "received" /\ req[r].op = "summarize"
    /\ req' = [ req EXCEPT ![r] = Route(req[r]) ]
    /\ UNCHANGED <<config, disk, users, registered, ui>>

\* POST /ask, up to the first await of extractPdfText
PostAsk(r) ==
    /\ req[r].pc = "received" /\ req[r].op = "ask"
    /\ req' = [ req EXCEPT ![r] = Route(req[r]) ]
    /\ UNCHANGED <<config, disk, users, registered, ui>>

\* extractPdfText: fs.promises.readFile settles; the parser is started
ReadFileDone(r) ==
    LET rq == req[r]
        read == ReadFile(rq.filePath)
    IN
    /\ rq.pc = "readFile"
    /\ req' = [ req EXCEPT ![r] =
                  IF ~read.ok THEN Finish(rq, ErrorHandler(Error(read.message)))
                  ELSE [ rq EXCEPT !.pc = "getText", !.fileBuffer = read.bytes,
                                   !.calls = Append(@, Call("getText", read.bytes)) ] ]
    /\ UNCHANGED <<config, disk, users, registered, ui>>

\* extractPdfText: parser.getText() settles
GetTextDone(r) ==
    /\ req[r].pc = "getText"
    /\ req' = [ req EXCEPT ![r] = AfterGetText(req[r], GetText(req[r].fileBuffer)) ]
    /\ UNCHANGED <<config, disk, users, registered, ui>>

\* extractPdfText: Tesseract.recognize settles
RecognizeDone(r) ==
    /\ req[r].pc = "recognize"
    /\ req' = [ req EXCEPT ![r] = AfterRecognize(req[r], Recognize(req[r].fileBuffer)) ]
    /\ UNCHANGED <<config, disk, users, registered, ui>>

\* the language-model backend answers the chat call
ChatDone(r) ==
    /\ req[r].pc = "chat"
    /\ \E reply \in Replies(req[r].op) :
         req' = [ req EXCEPT ![r] = AfterChat(req[r], reply) ]
    /\ UNCHANGED <<config, disk, users, registered, ui>>

\* the response has been delivered; the request and its locals are discarded
Close(r) ==
    /\ req[r].pc = "done"
    /\ req' = [ req EXCEPT ![r] = Idle ]
    /\ UNCHANGED <<config, disk, users, registered, ui>>

Next ==
    \E r \in Slots :
        \/ Arrive(r)
        \/ Close(r)
        \/ PostUpload(r)
        \/ PostExtract(r)
        \/ PostSummarize(r)
        \/ PostAsk(r)
        \/ ReadFileDone(r)
        \/ GetTextDone(r)
        \/ RecognizeDone(r)
        \/ ChatDone(r)

Spec == Init /\ [][Next]_vars

-----------------------------------------------------------------------------
(* POST /auth/register and POST /auth/login, with the users table *)

\* the request slots of the specification of the auth endpoints
AuthSlots == { 1, 2 }

\* the salts bcrypt.genSalt draws
Salts == { "saltA", "saltB" }

\* the JSON bodies the clients of the auth endpoints send ("" is a missing
\* member): two well-formed emails, passwords of 7, 8 and 11 characters
AuthBodies ==
    [ email : { "a@b.co" }, password : { "", "password123", "hunter22", "1234567" } ]
    \cup [ email : { "", "c@d.io", "nobody", "a@.co" },
           password : { "password123" } ]

\* /.+@.+\..+/.test(email): an "@" after a character, then a "." at least
\* one character later and at least one character after it, none of the
\* characters a line terminator
TestEmail(email) ==
    \E i \in 2..Len(email), j \in 4..Len(email) :
        /\ At(email, i) = "@"
        /\ At(email, j) = "."
        /\ i + 2 <= j /\ j + 1 <= Len(email)
        /\ At(email, i - 1) # "\n"
        /\ \A k \in (i + 1)..(j - 1) : At(email, k) # "\n"
        /\ At(email, j + 1) # "\n"

\* bcrypt.hash(password, 10) under the salt drawn: the salt and the digest
BCRYPT_PREFIX == "$2a$10$"

Bcrypt(password, salt) == BCRYPT_PREFIX \o salt \o "$" \o password

\* the salt a hash carries
SaltOf(hash) == SubSeq(hash, Len(BCRYPT_PREFIX) + 1, Len(BCRYPT_PREFIX) + Len("saltA"))

\* comparePassword(password, hash): bcrypt.compare hashes the password under
\* the salt of the hash and compares
comparePasswordFixedSalt(password, hash) == Bcrypt(password, "saltA") = hash

comparePassword(password, hash) == Bcrypt(password, SaltOf(hash)) = hash

\* createToken({ userId, email }): jwt.sign of the payload
createToken(userId, email) == "jwt." \o userId \o "." \o email

\* the error jwt.sign throws, or none (an empty message): it refuses an
\* empty secret
JwtSign ==
    IF config.JWT_SECRET = "" THEN Error("secretOrPrivateKey must have a value")
    ELSE Error("")

\* randomUUID() of request r: an id no row and no other request holds
UserId(r) == "id-" \o ToString(r) \o "-" \o ToString(Cardinality(DOMAIN users))

\* a row of the users table
Row(id, email, passwordHash) ==
    [ id |-> id, email |-> email, password_hash |-> passwordHash ]

\* a client sends a request to an auth endpoint
ArriveAuth(r) ==
    /\ req[r].pc = "idle"
    /\ \E op \in { "register", "login" }, body \in AuthBodies :
         req' = [ req EXCEPT ![r] =
                    [ Idle EXCEPT !.pc = "received", !.op = op, !.body = body,
                                  !.prior = IF op = "login" THEN registered ELSE {} ] ]
    /\ UNCHANGED <<config, disk, users, registered, ui>>

\* POST /auth/register up to `await db.get(...)`
PostRegister(r) ==
    LET rq == req[r]
    IN
    /\ rq.pc = "received" /\ rq.op = "register"
    /\ req' = [ req EXCEPT ![r] =
                IF Falsy(rq.body, "email") \/ Falsy(rq.body, "password")
                THEN Finish(rq, Json(400, [ error |-> "Email and password are required" ]))
                ELSE IF ~TestEmail(rq.body.email) \/ Len(rq.body.password) < 8
                THEN Finish(rq, Json(400, [ error |-> "Invalid email or password" ]))
                ELSE [ rq EXCEPT !.pc = "dbGet",
                                 !.calls = Append(@, Call("dbGet", rq.body.email)) ] ]
    /\ UNCHANGED <<config, disk, users, registered, ui>>

\* POST /auth/register: the SELECT resolves; up to `await hashPassword(...)`
RegisterGetDone(r) ==
    LET rq == req[r]
    IN
    /\ rq.pc = "dbGet" /\ rq.op = "register"
    /\ req' = [ req EXCEPT ![r] =
                IF rq.body.email \in DOMAIN users
                THEN Finish(rq, Json(409, [ error |-> "User already exists" ]))
                ELSE [ rq EXCEPT !.pc = "hash", !.userId = UserId(r),
                                 !.calls = Append(@, Call("hash", rq.body.password)) ] ]
    /\ UNCHANGED <<config, disk, users, registered, ui>>

\* POST /auth/register: bcrypt.hash resolves; up to `await db.run(...)`
HashDone(r) ==
    LET rq == req[r]
    IN
    /\ rq.pc = "hash"
    /\ \E salt \in Salts :
         req' = [ req EXCEPT ![r] =
                    [ rq EXCEPT !.pc = "dbRun",
                                !.passwordHash = Bcrypt(rq.body.password, salt),
                                !.calls = Append(@, Call("dbRun", rq.body.email)) ] ]
    /\ UNCHANGED <<config, disk, users, registered, ui>>

\* POST /auth/register: the INSERT settles: it is rejected when a row holds
\* the email (email TEXT UNIQUE), else the row is stored, the token is
\* signed and 201 is sent
RegisterRunDone(r) ==
    LET rq == req[r]
        email == rq.body.email
    IN
    /\ rq.pc = "dbRun"
    /\ IF email \in DOMAIN users
       THEN /\ req' = [ req EXCEPT ![r] =
                          Finish(rq, ErrorHandler(Error(
                              "SQLITE_CONSTRAINT: UNIQUE constraint failed: users.email"))) ]
            /\ UNCHANGED <<users, registered>>
       ELSE /\ users' = [ e \in DOMAIN users \cup { email } |->
                            IF e = email THEN Row(rq.userId, email, rq.passwordHash)
                            ELSE users[e] ]
            /\ IF JwtSign.message # ""
               THEN /\ req' = [ req EXCEPT ![r] = Finish(rq, ErrorHandler(JwtSign)) ]
                    /\ UNCHANGED registered
               ELSE /\ registered' = registered \cup { <<email, rq.body.password>> }
                    /\ req' = [ req EXCEPT ![r] =
                                  Finish(rq, Json(201,
                                      [ token |-> createToken(rq.userId, email),
                                        user |-> [ id |-> rq.userId, email |-> email ] ])) ]
    /\ UNCHANGED <<config, disk, ui>>

\* POST /auth/login up to `await db.get(...)`
PostLogin(r) ==
    LET rq == req[r]
    IN
    /\ rq.pc = "received" /\ rq.op = "login"
    /\ req' = [ req EXCEPT ![r] =
                IF Falsy(rq.body, "email") \/ Falsy(rq.body, "password")
                THEN Finish(rq, Json(400, [ error |-> "Email and password are required" ]))
                ELSE [ rq EXCEPT !.pc = "dbGet",
                                 !.calls = Append(@, Call("dbGet", rq.body.email)) ] ]
    /\ UNCHANGED <<config, disk, users, registered, ui>>

\* POST /auth/login: the SELECT resolves; up to `await comparePassword(...)`
LoginGetDone(r) ==
    LET rq == req[r]
    IN
    /\ rq.pc = "dbGet" /\ rq.op = "login"
    /\ req' = [ req EXCEPT ![r] =
                IF rq.body.email \notin DOMAIN users
                THEN Finish(rq, Json(401, [ error |-> "Invalid credentials" ]))
                ELSE [ rq EXCEPT !.pc = "compare", !.user = users[rq.body.email],
                                 !.calls = Append(@, Call("compare", rq.body.password)) ] ]
    /\ UNCHANGED <<config, disk, users, registered, ui>>

\* POST /auth/login: bcrypt.compare resolves; the rest of the handler
CompareDone(r) ==
    LET rq == req[r]
    IN
    /\ rq.pc = "compare"
    /\ req' = [ req EXCEPT ![r] =
                IF ~comparePassword(rq.body.password, rq.user.password_hash)
                THEN Finish(rq, Json(401, [ error |-> "Invalid credentials" ]))
                ELSE IF JwtSign.message # ""
                THEN Finish(rq, ErrorHandler(JwtSign))
                ELSE Finish(rq, Json(200,
                         [ token |-> createToken(rq.user.id, rq.user.email),
                           user |-> [ id |-> rq.user.id, email |-> rq.user.email ] ])) ]
    /\ UNCHANGED <<config, disk, users, registered, ui>>

\* the server of the auth tests: the table created by initDb, no request yet
InitAuth ==
    /\ config \in [ AI_PROVIDER : { "openai" }, OPENAI_API_KEY : { "" },
                    JWT_SECRET : { DEFAULT_JWT_SECRET, "" } ]
    /\ disk = NoObject
    /\ req = [ r \in AuthSlots |-> Idle ]
    /\ users = NoObject
    /\ registered = {}
    /\ ui = NoObject

NextAuth ==
    \E r \in AuthSlots :
        \/ ArriveAuth(r)
        \/ Close(r)
        \/ PostRegister(r)
        \/ RegisterGetDone(r)
        \/ HashDone(r)
        \/ RegisterRunDone(r)
        \/ PostLogin(r)
        \/ LoginGetDone(r)
        \/ CompareDone(r)

SpecAuth == InitAuth /\ [][NextAuth]_vars

-----------------------------------------------------------------------------
(* Concurrent requests to /extract, /summarize and /ask on stored files *)

\* the request slots of the specification of concurrent requests
ConcSlots == { 1, 2 }

\* the upload directory after two uploads
ConcDisks ==
    { [ p \in { PathJoin(uploadDir, "u1.pdf"), PathJoin(uploadDir, "u2.pdf") } |->
          IF p = PathJoin(uploadDir, "u1.pdf") THEN first ELSE second ] :
        <<first, second>> \in { <<"digital80", "digital79">>, <<"corrupt", "ocrfail">> } }

\* the headers and the JSON bodies the concurrent clients send
ConcHeaders == { NoObject, [ k \in { "authorization" } |-> "Bearer jwt.alice" ] }

ConcBodies(op) ==
    { NoObject }
    \cup { IF op = "ask"
           THEN [ k \in { "id", "question" } |-> IF k = "id" THEN i ELSE "What grew?" ]
           ELSE [ k \in { "id" } |-> i ] : i \in { "nofile.pdf", "u1.pdf", "u2.pdf" } }

\* how the chat calls of the concurrent requests end
ConcReplies(op) ==
    { [ reached |-> TRUE, ok |-> TRUE, hasContent |-> TRUE, content |-> c,
        message |-> "" ] :
        c \in IF op = "ask" THEN { ExampleAnswer, "\n [p.7] \n" }
              ELSE { "\n Summary: revenue grew. \n" } }
    \cup { [ reached |-> TRUE, ok |-> FALSE, hasContent |-> FALSE, content |-> "",
             message |-> "model overloaded" ] }

InitConc ==
    /\ config \in { [ AI_PROVIDER |-> "ollama", OPENAI_API_KEY |-> "",
                      JWT_SECRET |-> DEFAULT_JWT_SECRET ],
                    [ AI_PROVIDER |-> "openai", OPENAI_API_KEY |-> "sk-test",
                      JWT_SECRET |-> DEFAULT_JWT_SECRET ] }
    /\ disk \in ConcDisks
    /\ req = [ r \in ConcSlots |-> Idle ]
    /\ users = NoObject
    /\ registered = {}
    /\ ui = NoObject

\* a client sends a request while others may be in flight
ArriveConc(r) ==
    /\ req[r].pc = "idle"
    /\ \E op \in { "extract", "summarize", "ask" }, headers \in ConcHeaders :
         \E body \in ConcBodies(op) :
            req' = [ req EXCEPT ![r] =
                       [ Idle EXCEPT !.pc = "received", !.op = op,
                                     !.headers = headers, !.body = body ] ]
    /\ UNCHANGED <<config, disk, users, registered, ui>>

\* the language-model backend answers the chat call of a concurrent request
ChatDoneConc(r) ==
    /\ req[r].pc = "chat"
    /\ \E reply \in ConcReplies(req[r].op) :
         req' = [ req EXCEPT ![r] = AfterChat(req[r], reply) ]
    /\ UNCHANGED <<config, disk, users, registered, ui>>

NextConc ==
    \E r \in ConcSlots :
        \/ ArriveConc(r)
        \/ Close(r)
        \/ PostExtract(r)
        \/ PostSummarize(r)
        \/ PostAsk(r)
        \/ ReadFileDone(r)
        \/ GetTextDone(r)
        \/ RecognizeDone(r)
        \/ ChatDoneConc(r)

SpecConc == InitConc /\ [][NextConc]_vars

\* the steps of request r that need no answer of OCR or of the backend:
\* the handler's start, and the settling of the file read and of the parse
HandlerStep(r) ==
    \/ PostExtract(r)
    \/ PostSummarize(r)
    \/ PostAsk(r)
    \/ ReadFileDone(r)
    \/ GetTextDone(r)

\* the event loop runs the code that follows an await once the awaited
\* promise has settled, and the file read and the parse settle; OCR and the
\* call of the backend need not
FairConc == \A r \in ConcSlots : WF_vars(HandlerStep(r))

\* the concurrent requests with the local backend selected
InitFair == InitConc /\ config.AI_PROVIDER = "ollama"

SpecConcFair == InitFair /\ [][NextConc]_vars /\ FairConc

-----------------------------------------------------------------------------
(* Properties *)

\* parser.getText() of request rq has settled
GetTextSettled(rq) ==
    Called(rq, "getText") /\ rq.pc # "getText"

\* Tesseract.recognize of request rq has settled
RecognizeSettled(rq) ==
    Called(rq, "recognize") /\ rq.pc # "recognize"

\* the length of the trimmed text the digital parse recovers, per document
TrimmedLengths == [ bytes \in Docs |-> Len(Trim(ParsedDocs[bytes].text)) ]

TrimmedLength(bytes) == TrimmedLengths[bytes]

\* the trimmed texts of the pages the digital parse recovers, per document
TrimmedPageTexts ==
    [ bytes \in Docs |->
        [ j \in 1..Len(ParsedDocs[bytes].pages) |->
            Trim(ParsedDocs[bytes].pages[j].text) ] ]

\* C1: extractPdfText chooses the method by the trimmed length of the
\* digitally parsed text against 80 alone: a trimmed length of 80 or more
\* yields method "pdf-parse" and OCR is never invoked; a trimmed length of 79
\* or less invokes OCR and the method, once there is a result, is "ocr".
C1_MethodByThreshold ==
    \A r \in Slots :
        LET rq == req[r]
        IN  (GetTextSettled(rq) /\ GetText(rq.fileBuffer).ok) =>
              /\ TrimmedLength(rq.fileBuffer) >= 80 =>
                   /\ rq.result.method = "pdf-parse"
                   /\ ~Called(rq, "recognize")
                   /\ rq.response.status = 200 => rq.response.method = "pdf-parse"
              /\ TrimmedLength(rq.fileBuffer) <= 79 =>
                   /\ Called(rq, "recognize")
                   /\ rq.result.method \in { "none", "ocr" }
                   /\ (RecognizeSettled(rq) /\ Recognize(rq.fileBuffer).ok) =>
                        rq.result.method = "ocr"
                   /\ rq.response.status = 200 => rq.response.method = "ocr"

\* a document of exactly 80 trimmed characters has been extracted digitally
C1_Witness ==
    \E r \in Slots :
        /\ req[r].pc = "done" /\ req[r].op = "extract"
        /\ req[r].response.status = 200
        /\ req[r].response.method = "pdf-parse"
        /\ TrimmedLength(req[r].fileBuffer) = 80
        /\ ~Called(req[r], "recognize")

\* C2: whenever extractPdfText returns method "pdf-parse", its pages are
\* exactly the parsed pages whose trimmed text is non-empty, each with its
\* trimmed text, and their page numbers are strictly ascending.
C2_DigitalPagesNonBlankAscending ==
    \A r \in Slots :
        LET pages == req[r].result.pages
            parsed == GetText(req[r].fileBuffer).pages
        IN  req[r].result.method = "pdf-parse" =>
              /\ \A k \in 1..Len(pages) :
                   /\ pages[k].text # ""
                   /\ \E j \in 1..Len(parsed) :
                        /\ parsed[j].num = pages[k].page
                        /\ pages[k].text = TrimmedPageTexts[req[r].fileBuffer][j]
              /\ \A j \in 1..Len(parsed) :
                   TrimmedPageTexts[req[r].fileBuffer][j] # "" =>
                     \E k \in 1..Len(pages) : pages[k].page = parsed[j].num
              /\ \A k \in 1..(Len(pages) - 1) : pages[k].page < pages[k + 1].page

\* a digital extraction that dropped blank pages and kept several others
C2_Witness ==
    \E r \in Slots :
        /\ req[r].result.method = "pdf-parse"
        /\ Len(req[r].result.pages) >= 2
        /\ Len(req[r].result.pages) < Len(GetText(req[r].fileBuffer).pages)

\* C3: whenever extractPdfText takes the OCR fallback and OCR returns, the
\* result has method "ocr" and the trimmed OCR blob as its text; a non-empty
\* blob gives exactly one page, numbered 1, holding that text, and an empty
\* blob gives no page.
C3_OcrResultShape ==
    \A r \in Slots :
        LET rq == req[r]
            blob == Recognize(rq.fileBuffer).text
        IN  (RecognizeSettled(rq) /\ Recognize(rq.fileBuffer).ok) =>
              /\ rq.result.method = "ocr"
              /\ rq.result.text = Trim(blob)
              /\ Trim(blob) # "" =>
                   /\ Len(rq.result.pages) = 1
                   /\ rq.result.pages[1].page = 1
                   /\ rq.result.pages[1].text = rq.result.text
              /\ Trim(blob) = "" => rq.result.pages = << >>

\* the OCR fallback returned a blob that trims to text
C3_Witness ==
    \E r \in Slots :
        /\ RecognizeSettled(req[r])
        /\ req[r].result.method = "ocr"
        /\ req[r].result.text # ""
        /\ req[r].result.text # Recognize(req[r].fileBuffer).text
        /\ Len(req[r].result.pages) = 1

\* C4: an exception of the digital parse never triggers the OCR fallback:
\* OCR is not invoked and the request ends in an error response; an exception
\* of OCR ends the request in an error response too. OCR runs only on a
\* trimmed length below the threshold.
C4_ExceptionsAreFatal ==
    \A r \in Slots :
        LET rq == req[r]
        IN  /\ (GetTextSettled(rq) /\ ~GetText(rq.fileBuffer).ok) =>
                 /\ ~Called(rq, "recognize")
                 /\ rq.pc = "done"
                 /\ rq.response.status = 500
                 /\ rq.result = NoResult
            /\ (RecognizeSettled(rq) /\ ~Recognize(rq.fileBuffer).ok) =>
                 /\ rq.pc = "done"
                 /\ rq.response.status = 500
                 /\ rq.result = NoResult
            /\ Called(rq, "recognize") =>
                 /\ GetText(rq.fileBuffer).ok
                 /\ TrimmedLength(rq.fileBuffer) < 80

\* the digital parse threw and the request ended in an error without OCR
C4_Witness ==
    \E r \in Slots :
        /\ GetTextSettled(req[r])
        /\ ~GetText(req[r].fileBuffer).ok
        /\ req[r].response.status = 500
        /\ ~Called(req[r], "recognize")

-----------------------------------------------------------------------------
(* Citations *)

\* the spans <<i, j>> of s that read "[p." at i, one or more digits, "]" at j
Markers(s) ==
    { m \in (1..Len(s)) \X (1..Len(s)) :
        /\ m[1] + 3 < m[2]
        /\ SubSeq(s, m[1], m[1] + 2) = "[p."
        /\ At(s, m[2]) = "]"
        /\ \A k \in (m[1] + 3)..(m[2] - 1) : At(s, k) \in Digits }

\* the integer a run of decimal digits denotes
RECURSIVE Decimal(_)
Decimal(d) ==
    IF d = "" THEN 0
    ELSE LET v == CHOOSE n \in 0..9 : ToString(n) = Head(d)
             rest == Tail(d)
             pow[k \in 0..Len(rest)] == IF k = 0 THEN 1 ELSE 10 * pow[k - 1]
         IN  v * pow[Len(rest)] + Decimal(rest)

\* the integers the markers of s denote
MarkerValues(s) ==
    { Decimal(SubSeq(s, m[1] + 3, m[2] - 1)) : m \in Markers(s) }

\* the elements of a sequence
Range(xs) == { xs[k] : k \in 1..Len(xs) }

\* request rq is an /ask request the backend answered with a completion
Answered(rq) ==
    rq.pc = "done" /\ rq.op = "ask" /\ Len(rq.sent) > 0 /\ rq.reply.ok

\* C5: the citations /ask returns are exactly the integers denoted by the
\* markers "[p.<digits>]" of the answer returned in the same response, each
\* listed once; the example answer gives {2, 5}; an answer without a marker
\* gives an empty list with status 200.
C5_CitationsAreTheMarkerValues ==
    \A r \in Slots :
        LET rq == req[r]
        IN  Answered(rq) =>
              /\ rq.response.status = 200
              /\ { "answer", "citations" } \subseteq rq.response.keys
              /\ Range(rq.response.citations) = MarkerValues(rq.response.answer)
              /\ Len(rq.response.citations) = Cardinality(Range(rq.response.citations))
              /\ rq.response.answer = ExampleAnswer =>
                   Range(rq.response.citations) = { 2, 5 }
              /\ Markers(rq.response.answer) = {} => rq.response.citations = << >>

\* the example answer was returned with its two citations
C5_Witness ==
    \E r \in Slots :
        /\ Answered(req[r])
        /\ req[r].response.answer = ExampleAnswer
        /\ req[r].response.citations = << 2, 5 >>

\* C6, as claimed: every value in the citations /ask returns is a positive
\* integer.
C6_CitationsPositive ==
    \A r \in Slots :
        Answered(req[r]) => \A n \in Range(req[r].response.citations) : n >= 1

\* C6, amended: every value in the citations /ask returns is a non-negative
\* integer, and it is 0 only if the answer holds a marker whose digits are
\* all zeros.
C6_CitationsNonNegative ==
    \A r \in Slots :
        LET rq == req[r]
        IN  Answered(rq) =>
              \A n \in Range(rq.response.citations) :
                  /\ n \in Nat
                  /\ n = 0 =>
                       \E m \in Markers(rq.response.answer) :
                           \A k \in (m[1] + 3)..(m[2] - 1) :
                               At(rq.response.answer, k) = "0"

\* an answer citing "[p.0]" was returned with citation 0
C6_Witness ==
    \E r \in Slots :
        /\ Answered(req[r])
        /\ req[r].response.answer = "[p.0]"
        /\ req[r].response.citations = << 0 >>

\* the page numbers extractPdfText returned to request rq
PageNumbers(rq) == { rq.result.pages[k].page : k \in 1..Len(rq.result.pages) }

\* C7: a page number of a well-formed marker of the answer is returned as a
\* citation also when the context sent to the backend holds no page of that
\* number.
C7_CitationsNotValidated ==
    \A r \in Slots :
        LET rq == req[r]
        IN  Answered(rq) =>
              \A n \in MarkerValues(rq.response.answer) :
                  n \notin PageNumbers(rq) => n \in Range(rq.response.citations)

\* an answer about a document without any page was returned with a citation
C7_Witness ==
    \E r \in Slots :
        /\ Answered(req[r])
        /\ req[r].result.pages = << >>
        /\ req[r].response.citations # << >>

-----------------------------------------------------------------------------
(* Prompts *)

Min(a, b) == IF a < b THEN a ELSE b

\* C8: the document text appended to the summarization user message is the
\* prefix of the extracted full text of length min(len, 20000): a text of
\* 50,000 characters contributes its first 20,000, a text of at most 20,000
\* characters is sent unchanged.
C8_SummaryInputIsPrefix ==
    \A r \in Slots :
        LET rq == req[r]
            content == rq.sent[2].content
            payload == SubSeq(content, Len(SUMMARY_INSTRUCTION) + 1, Len(content))
            fullText == rq.result.text
        IN  (rq.op = "summarize" /\ Len(rq.sent) > 0) =>
              /\ Len(rq.sent) = 2
              /\ rq.sent[2].role = "user"
              /\ SubSeq(content, 1, Len(SUMMARY_INSTRUCTION)) = SUMMARY_INSTRUCTION
              /\ Len(payload) = Min(Len(fullText), 20000)
              /\ payload = SubSeq(fullText, 1, Len(payload))
              /\ Len(fullText) <= 20000 => payload = fullText

\* a text of 50,000 characters was summarized from its first 20,000
C8_Witness ==
    \E r \in Slots :
        /\ req[r].op = "summarize" /\ req[r].pc = "chat"
        /\ Len(req[r].result.text) = 50000
        /\ Len(req[r].sent[2].content) = Len(SUMMARY_INSTRUCTION) + 20000

\* the block the context holds for the k-th page extractPdfText returned
ExpectedBlock(rq, k) ==
    "Page " \o ToString(rq.result.pages[k].page) \o ":\n"
    \o SubSeq(rq.result.pages[k].text, 1, Min(Len(rq.result.pages[k].text), 2000))

\* where that block starts in the context, blocks being two characters apart
RECURSIVE BlockStart(_, _)
BlockStart(rq, k) ==
    IF k = 1 THEN 1
    ELSE BlockStart(rq, k - 1) + Len(ExpectedBlock(rq, k - 1)) + 2

\* C9: the /ask context holds, for every extracted page in sequence order
\* and exactly once, the block "Page <N>:\n<text>" with the page's text cut
\* to its first 2000 characters, the blocks joined by a blank line; the user
\* message is "Question: <question>\n\nDocument:\n<context>".
C9_AskContext ==
    \A r \in Slots :
        LET rq == req[r]
            content == rq.sent[2].content
            lead == "Question: " \o rq.body["question"] \o "\n\nDocument:\n"
            context == SubSeq(content, Len(lead) + 1, Len(content))
            n == Len(rq.result.pages)
        IN  (rq.op = "ask" /\ Len(rq.sent) > 0) =>
              /\ Len(rq.sent) = 2
              /\ rq.sent[2].role = "user"
              /\ SubSeq(content, 1, Len(lead)) = lead
              /\ Len(context) =
                   IF n = 0 THEN 0
                   ELSE BlockStart(rq, n) + Len(ExpectedBlock(rq, n)) - 1
              /\ \A k \in 1..n :
                   LET b == ExpectedBlock(rq, k)
                       from == BlockStart(rq, k)
                   IN  /\ SubSeq(context, from, from + Len(b) - 1) = b
                       /\ k < n =>
                            SubSeq(context, from + Len(b), from + Len(b) + 1) = "\n\n"

\* a question about a document of several pages, one of them longer than
\* 2000 characters, is with the backend
C9_Witness ==
    \E r \in Slots :
        /\ req[r].op = "ask" /\ req[r].pc = "chat"
        /\ Len(req[r].result.pages) >= 2
        /\ \E k \in 1..Len(req[r].result.pages) :
             Len(req[r].result.pages[k].text) > 2000

-----------------------------------------------------------------------------
(* Authentication *)

\* the request carries "Authorization: Bearer <token>" with a valid token
ValidAuthorization(headers) ==
    /\ "authorization" \in DOMAIN headers
    /\ \E token \in ValidTokens : headers["authorization"] = "Bearer " \o token

\* request rq has been processed up to its first await or its response
Entered(rq) == rq.pc \notin { "idle", "received" }

\* C10, as claimed: every PDF-related endpoint responds 401 to a request
\* without a valid Authorization header.
C10_Unauthorized401 ==
    \A r \in Slots :
        (Entered(req[r]) /\ ~ValidAuthorization(req[r].headers)) =>
          /\ req[r].pc = "done"
          /\ req[r].response.status = 401

\* C10, amended: a request to /upload, /extract, /summarize or /ask without
\* a valid Authorization header is answered before any body validation, file
\* lookup, storage, extraction or backend call, with 401 unless its body is
\* malformed JSON, which the body parser answers with 500 before authenticate
\* runs; with an empty body POST /extract yields 401, never 400 or 404.
C10_UnauthorizedStopsFirst ==
    \A r \in Slots :
        LET rq == req[r]
        IN  (Entered(rq) /\ ~ValidAuthorization(rq.headers)) =>
              /\ rq.pc = "done"
              /\ rq.calls = << >>
              /\ rq.sent = << >>
              /\ rq.filePath = "" /\ rq.fileBuffer = ""
              /\ rq.result = NoResult
              /\ rq.response.status = IF rq.malformed THEN 500 ELSE 401
              /\ rq.response.keys \subseteq { "error", "message" }

\* POST /extract with an empty body and no Authorization header got 401
C10_Witness ==
    \E r \in Slots :
        /\ req[r].pc = "done" /\ req[r].op = "extract"
        /\ DOMAIN req[r].headers = {}
        /\ DOMAIN req[r].body = {} /\ ~req[r].malformed
        /\ req[r].response.status = 401

-----------------------------------------------------------------------------
(* Properties of the auth endpoints *)

\* the response of request rq carries a token
HasToken(rq) == "token" \in rq.response.keys /\ rq.response.token # ""

\* C11: once /auth/register has answered 201 with a token for an email and a
\* password (a well-formed email, a password of 8 characters or more), every
\* /auth/login sent after that with the same email and password is answered
\* 200 with a token, whatever other register and login requests were served
\* before it or are served alongside it.
C11_LoginAfterRegister ==
    /\ \A pair \in registered : TestEmail(pair[1]) /\ Len(pair[2]) >= 8
    /\ \A r \in DOMAIN req :
        LET rq == req[r]
        IN  /\ (rq.op = "register" /\ rq.pc = "done" /\ rq.response.status = 201) =>
                 /\ HasToken(rq)
                 /\ <<rq.body.email, rq.body.password>> \in registered
            /\ (/\ rq.op = "login" /\ rq.pc = "done"
                /\ <<rq.body.email, rq.body.password>> \in rq.prior) =>
                 /\ rq.response.status = 200
                 /\ HasToken(rq)

\* a login was answered 200 after its registration and that of another user
C11_Witness ==
    \E r \in DOMAIN req :
        /\ req[r].op = "login" /\ req[r].pc = "done"
        /\ <<req[r].body.email, req[r].body.password>> \in req[r].prior
        /\ Cardinality(req[r].prior) >= 2
        /\ req[r].response.status = 200

-----------------------------------------------------------------------------
(* Properties of the failure paths *)

PdfOps == { "extract", "summarize", "ask" }

\* request rq passed authentication and the checks of its body, and the
\* path its id resolves to is not a file of the upload directory
NamesNoStoredFile(rq) ==
    /\ rq.op \in PdfOps
    /\ rq.filePath # ""
    /\ rq.filePath \notin DOMAIN disk

\* C12: an authenticated request to /extract, /summarize or /ask whose file
\* id names no stored file is answered 404, and neither the digital parse nor
\* OCR nor the language-model backend is called for it.
C12_UnknownFileNotFound ==
    \A r \in Slots :
        LET rq == req[r]
        IN  (NamesNoStoredFile(rq) /\ rq.pc = "done") =>
              /\ rq.response.status = 404
              /\ ~Called(rq, "readFile")
              /\ ~Called(rq, "getText")
              /\ ~Called(rq, "recognize")
              /\ ~Called(rq, "chat")

\* request rq got to the selection of the backend with the cloud backend
\* selected and no API key configured
CredentialsMissing(rq) ==
    /\ rq.op \in { "summarize", "ask" }
    /\ rq.pc = "done"
    /\ rq.result.method # "none"
    /\ config.AI_PROVIDER # "ollama"
    /\ config.OPENAI_API_KEY = ""

\* the backend of request rq was reached and answered with an error
BackendReturnedError(rq) ==
    /\ rq.op \in { "summarize", "ask" }
    /\ rq.pc = "done"
    /\ rq.reply.reached /\ ~rq.reply.ok

\* C13: in /summarize and /ask missing backend credentials are answered 503
\* and an error response of a backend that was reached is answered 500,
\* whichever backend is selected, so that 503 is never the answer to an
\* error the backend returned.
C13_CredentialsVsUpstream ==
    \A r \in Slots :
        /\ CredentialsMissing(req[r]) => req[r].response.status = 503
        /\ BackendReturnedError(req[r]) => req[r].response.status = 500

\* the digital parse of request rq threw: the uploaded bytes are no PDF
ParseThrew(rq) ==
    /\ rq.op \in PdfOps
    /\ rq.filePath \in DOMAIN disk
    /\ GetTextSettled(rq)
    /\ ~GetText(rq.fileBuffer).ok

\* C14: when the digital parse throws because the bytes are no PDF, /extract,
\* /summarize and /ask answer with a client-class error (a 4xx status) that
\* differs from the generic internal-error response by which upstream
\* failures are answered.
C14_UnreadableIsClientError ==
    \A r \in Slots :
        ParseThrew(req[r]) =>
          /\ req[r].pc = "done"
          /\ req[r].response.status \in 400..499
          /\ req[r].response.error # "Internal Server Error"

\* the chat call of request rq ended without a response of the backend
BackendUnreachable(rq) ==
    /\ rq.op \in { "summarize", "ask" }
    /\ rq.pc = "done"
    /\ Called(rq, "chat")
    /\ ~rq.reply.reached

\* C15: when the call to the selected backend, cloud or local, fails
\* without a response, /summarize and /ask answer 503, not the generic
\* internal-error response.
C15_UnreachableIsUnavailable ==
    \A r \in Slots :
        BackendUnreachable(req[r]) =>
          /\ req[r].response.status = 503
          /\ req[r].response.error # "Internal Server Error"

\* the number of calls of fn request rq has made
CallCount(rq, fn) == Len(SelectSeq(rq.calls, LAMBDA c : c.fn = fn))

-----------------------------------------------------------------------------
(* Properties of the two backends *)

\* the messages the local backend gets for the input of request rq
OllamaMessagesFor(rq) ==
    IF rq.op = "summarize"
    THEN OllamaSummaryMessages(PromptText(rq.result.text))
    ELSE OllamaAnswerMessages(rq.body["question"],
                              BuildContext(ContextPages(rq.result.pages)))

\* the messages the cloud backend gets for the input of request rq
OpenAIMessagesFor(rq) ==
    IF rq.op = "summarize"
    THEN SummaryMessages(PromptText(rq.result.text))
    ELSE AnswerMessages(rq.body["question"],
                        BuildContext(ContextPages(rq.result.pages)))

\* the text member of the 200 response of /summarize or /ask
TextOf(response) ==
    IF "summary" \in response.keys THEN response.summary ELSE response.answer

\* C17: prompt construction does not depend on the backend: for the same
\* input the messages sent, roles and contents, are those the cloud branch
\* and the local branch both build, and the text of the reply is returned
\* the same way by both: trimmed, and empty when the reply has no content.
C17_BackendAgnostic ==
    \A r \in Slots :
        LET rq == req[r]
        IN  Called(rq, "chat") =>
              /\ OllamaMessagesFor(rq) = OpenAIMessagesFor(rq)
              /\ rq.sent = OpenAIMessagesFor(rq)
              /\ (rq.pc = "done" /\ rq.reply.ok) =>
                   /\ rq.response.status = 200
                   /\ OllamaContent(rq.reply) = CompletionContent(rq.reply)
                   /\ TextOf(rq.response) = CompletionContent(rq.reply)
                   /\ TextOf(rq.response) =
                        IF rq.reply.hasContent THEN Trim(rq.reply.content) ELSE ""

\* the local backend answered a summary with blanks around it, returned
\* trimmed
C17_Witness ==
    \E r \in Slots :
        /\ req[r].pc = "done" /\ req[r].op = "summarize"
        /\ config.AI_PROVIDER = "ollama"
        /\ req[r].response.status = 200
        /\ req[r].reply.hasContent
        /\ req[r].response.summary # req[r].reply.content
        /\ req[r].sent = SummaryMessages(PromptText(req[r].result.text))

-----------------------------------------------------------------------------
(* Properties of repeated and concurrent requests *)

\* extractPdfText has returned a result to request rq
Extracted(rq) == rq.result.method # "none"

\* what extractPdfText returns for the bytes of a file
ExtractionOf(bytes) ==
    IF MeetsThreshold(Trim(GetText(bytes).text)) THEN DigitalResult(GetText(bytes))
    ELSE OcrResult(Recognize(bytes))

\* C18: extraction of the same stored bytes yields the same method and the
\* same text every time (the parse and OCR being deterministic), and every
\* request runs the pipeline itself: it reads the file and parses it, and
\* runs OCR when the method is "ocr"; no result of another request is reused.
C18_ExtractRepeatable ==
    /\ \A r \in DOMAIN req :
        LET rq == req[r]
        IN  Extracted(rq) =>
              /\ CallCount(rq, "readFile") = 1
              /\ CallCount(rq, "getText") = 1
              /\ CallCount(rq, "recognize") = IF rq.result.method = "ocr" THEN 1 ELSE 0
              /\ rq.result = ExtractionOf(rq.fileBuffer)
              /\ (rq.op = "extract" /\ rq.pc = "done") =>
                   /\ rq.response.status = 200
                   /\ rq.response.text = rq.result.text
                   /\ rq.response.method = rq.result.method
    /\ \A r1, r2 \in DOMAIN req :
        (/\ Extracted(req[r1]) /\ Extracted(req[r2])
         /\ req[r1].fileBuffer = req[r2].fileBuffer) =>
          /\ req[r1].result.method = req[r2].result.method
          /\ req[r1].result.text = req[r2].result.text

\* two /extract requests on the same scanned file were both answered "ocr",
\* each after its own parse and its own OCR
C18_Witness ==
    /\ DOMAIN req = ConcSlots
    /\ \A r \in ConcSlots :
        /\ req[r].op = "extract" /\ req[r].pc = "done"
        /\ req[r].response.status = 200 /\ req[r].response.method = "ocr"
        /\ req[r].filePath = req[1].filePath
        /\ CallCount(req[r], "getText") = 1 /\ CallCount(req[r], "recognize") = 1
    /\ req[1].response.text = req[2].response.text

\* the request rq as it ends when its handler runs with no other request in
\* flight, on the same stored bytes and with the same reply of the backend
AloneRun(rq) ==
    LET received == [ Idle EXCEPT !.pc = "received", !.op = rq.op,
                                  !.headers = rq.headers, !.body = rq.body,
                                  !.malformed = rq.malformed ]
        routed == Route(received)
        read == ReadFile(routed.filePath)
        opened == IF routed.pc # "readFile" THEN routed
                  ELSE IF ~read.ok THEN Finish(routed, ErrorHandler(Error(read.message)))
                  ELSE [ routed EXCEPT !.pc = "getText", !.fileBuffer = read.bytes,
                                       !.calls = Append(@, Call("getText", read.bytes)) ]
        parsed == IF opened.pc # "getText" THEN opened
                  ELSE AfterGetText(opened, GetText(opened.fileBuffer))
        recognized == IF parsed.pc # "recognize" THEN parsed
                      ELSE AfterRecognize(parsed, Recognize(parsed.fileBuffer))
    IN  IF recognized.pc # "chat" THEN recognized
        ELSE AfterChat(recognized, rq.reply)

\* C19: concurrent requests to /extract, /summarize and /ask share no
\* mutable state: under every interleaving of their steps each request ends
\* with the response, and with the calls and the prompt, it ends with when
\* it runs alone on the same stored bytes with the same reply of the backend.
C19_ConcurrentAsAlone ==
    \A r \in DOMAIN req :
        (req[r].op \in PdfOps /\ req[r].pc = "done") =>
          /\ req[r].response = AloneRun(req[r]).response
          /\ req[r] = AloneRun(req[r])
          /\ Extracted(req[r]) =>
               /\ req[r].fileBuffer = disk[PathJoin(uploadDir, req[r].body["id"])]
               /\ req[r].result = ExtractionOf(req[r].fileBuffer)

\* a /summarize of the scanned file was answered while an /ask of the other
\* file was waiting for the backend
C19_Witness ==
    \E r1, r2 \in ConcSlots :
        /\ DOMAIN req = ConcSlots
        /\ req[r1].pc = "done" /\ req[r1].op = "summarize"
        /\ req[r1].response.status = 200 /\ req[r1].response.method = "ocr"
        /\ req[r2].pc = "chat" /\ req[r2].op = "ask"
        /\ req[r2].result.method = "pdf-parse"
        /\ req[r2].filePath # req[r1].filePath

\* request rq is waiting for OCR or for the language-model backend
Waiting(rq) == rq.pc \in { "recognize", "chat" }

\* a response of request r, once sent, is not sent again or changed, and a
\* request that waits for OCR or the backend leaves the wait only by the
\* call settling: there is no timeout and no cancellation
ResponseStep ==
    \A r \in ConcSlots :
        /\ req[r].response.status # 0 =>
             (req'[r].response = req[r].response \/ req'[r] = Idle)
        /\ (req[r].pc = "recognize" /\ req'[r] # req[r]) =>
             req'[r] = AfterRecognize(req[r], Recognize(req[r].fileBuffer))
        /\ (req[r].pc = "chat" /\ req'[r] # req[r]) =>
             \E reply \in ConcReplies(req[r].op) : req'[r] = AfterChat(req[r], reply)

\* the response of request rq is there exactly when its handler has ended,
\* and a 200 follows the extraction and, for /summarize and /ask, the reply
\* of the backend
ResponseAfterCompletion(rq) ==
    /\ rq.response.status # 0 <=> rq.pc = "done"
    /\ Waiting(rq) => rq.response.status = 0
    /\ rq.response.status = 200 =>
         /\ Extracted(rq) /\ GetTextSettled(rq)
         /\ Called(rq, "recognize") => RecognizeSettled(rq)
         /\ rq.op \in { "summarize", "ask" } => (Called(rq, "chat") /\ rq.reply.ok)

\* C20: a request to /extract, /summarize or /ask is answered once, and
\* only when its extraction and, for /summarize and /ask, its backend call
\* have completed: every request received is answered unless it comes to
\* wait for OCR or the backend, and while it waits no response is sent and
\* nothing but the call settling ends the wait.
C20_OneResponseAfterCompletion ==
    /\ [][ResponseStep]_vars
    /\ [](\A r \in ConcSlots : ResponseAfterCompletion(req[r]))
    /\ \A r \in ConcSlots :
         (req[r].pc = "received") ~> (req[r].pc = "done" \/ Waiting(req[r]))

\* an /ask on the scanned file was answered 200 after OCR and the backend
\* call, while the other request was still waiting for the backend
C20_Witness ==
    \E r1, r2 \in ConcSlots :
        /\ req[r1].pc = "done" /\ req[r1].op = "ask"
        /\ req[r1].response.status = 200
        /\ Called(req[r1], "recognize") /\ Called(req[r1], "chat")
        /\ req[r2].pc = "chat" /\ req[r2].response.status = 0

-----------------------------------------------------------------------------
(* Properties of the responses *)

\* the members of the 200 response of each of the three endpoints
SuccessKeys(op) ==
    CASE op = "extract"   -> { "text", "method" }
      [] op = "summarize" -> { "summary", "method" }
      [] op = "ask"       -> { "answer", "citations", "method" }

\* the extraction run of request rq failed: the digital parse threw, or OCR
\* threw
ExtractionFailed(rq) ==
    \/ GetTextSettled(rq) /\ ~GetText(rq.fileBuffer).ok
    \/ RecognizeSettled(rq) /\ ~Recognize(rq.fileBuffer).ok

\* the text extractPdfText returns, per document
ExtractedTexts == [ bytes \in Docs |-> ExtractionOf(bytes).text ]

\* C21: the method a 200 response of /extract, /summarize or /ask reports is
\* the method the extraction run of that request took ("ocr" exactly when it
\* ran OCR), and there is no partial success: a request ends either with the
\* complete success body, after a parse and, if run, an OCR that both
\* succeeded, or with an error body that carries no text, summary, answer or
\* method; a failed extraction never ends in a success.
C21_MethodIsTheOneTaken ==
    \A r \in Slots :
        LET rq == req[r]
        IN  (rq.op \in PdfOps /\ rq.pc = "done") =>
              /\ rq.response.status = 200 =>
                   /\ rq.response.keys = SuccessKeys(rq.op)
                   /\ rq.response.method = rq.result.method
                   /\ rq.response.method =
                        IF Called(rq, "recognize") THEN "ocr" ELSE "pdf-parse"
                   /\ GetTextSettled(rq) /\ GetText(rq.fileBuffer).ok
                   /\ Called(rq, "recognize") => Recognize(rq.fileBuffer).ok
                   /\ rq.result.text = ExtractedTexts[rq.fileBuffer]
                   /\ rq.op = "extract" =>
                        rq.response.text = ExtractedTexts[rq.fileBuffer]
              /\ rq.response.status # 200 =>
                   /\ rq.response.keys \subseteq { "error", "message" }
                   /\ rq.response.text = "" /\ rq.response.summary = ""
                   /\ rq.response.answer = "" /\ rq.response.method = ""
              /\ ExtractionFailed(rq) => rq.response.status = 500

\* a /summarize was answered 200 with method "ocr" after the parse found too
\* little text and OCR succeeded
C21_Witness ==
    \E r \in Slots :
        /\ req[r].pc = "done" /\ req[r].op = "summarize"
        /\ req[r].response.status = 200 /\ req[r].response.method = "ocr"
        /\ Called(req[r], "recognize")
        /\ GetText(req[r].fileBuffer).text # ""
        /\ req[r].result.text # ""

\* request rq is a /auth/register with a well-formed email and a password of
\* 8 characters or more
ValidRegistration(rq) ==
    /\ rq.op = "register"
    /\ ~Falsy(rq.body, "email") /\ ~Falsy(rq.body, "password")
    /\ TestEmail(rq.body.email) /\ Len(rq.body.password) >= 8

\* C22: under every interleaving of concurrent /auth/register requests for
\* the same valid email at most one of them is answered 201 and creates the
\* row, every other one is answered 409 "User already exists", and the users
\* table never holds two rows with the same email.
C22_RegisterRace ==
    /\ \A r \in AuthSlots :
        (ValidRegistration(req[r]) /\ req[r].pc = "done") =>
          /\ req[r].response.status \in { 201, 409 }
          /\ req[r].response.status = 409 =>
               req[r].response.error = "User already exists"
    /\ \A r1, r2 \in AuthSlots :
        (/\ ValidRegistration(req[r1]) /\ ValidRegistration(req[r2])
         /\ req[r1].response.status = 201 /\ req[r2].response.status = 201
         /\ req[r1].body.email = req[r2].body.email) => r1 = r2
    /\ \A e \in DOMAIN users : users[e].email = e

\* the row a /auth/register request rq has stored, if any
StoredBy(rq) == { e \in DOMAIN users : users[e].id = rq.userId }

\* C23: a /auth/register that does not answer 201 leaves the users table
\* unchanged and issues no token; its answer is 400 when the email or the
\* password is missing, 400 when the email does not match
\* <something>@<something>.<something> or the password has fewer than 8
\* characters, and 409 when the email is registered already.
C23_RegisterFrame ==
    \A r \in AuthSlots :
        LET rq == req[r]
        IN  (rq.op = "register" /\ rq.pc = "done") =>
              /\ rq.response.status # 201 =>
                   /\ StoredBy(rq) = {}
                   /\ ~HasToken(rq)
              /\ (Falsy(rq.body, "email") \/ Falsy(rq.body, "password")) =>
                   /\ rq.response.status = 400
                   /\ rq.response.error = "Email and password are required"
              /\ (/\ ~Falsy(rq.body, "email") /\ ~Falsy(rq.body, "password")
                  /\ ~ValidRegistration(rq)) =>
                   /\ rq.response.status = 400
                   /\ rq.response.error = "Invalid email or password"
              /\ (ValidRegistration(rq) /\ rq.response.status # 201) =>
                   /\ rq.response.status = 409
                   /\ rq.response.error = "User already exists"

-----------------------------------------------------------------------------
(* Properties of the order of the checks *)

\* request rq got through the body parser and authenticate
Authenticated(rq) == ~rq.malformed /\ ValidAuthorization(rq.headers)

\* the body of request rq lacks the id or, for /ask, the question
MissingInput(rq) ==
    Falsy(rq.body, "id") \/ (rq.op = "ask" /\ Falsy(rq.body, "question"))

\* the functions request rq has called, in the order of the calls
CallOrder(rq) == [ k \in 1..Len(rq.calls) |-> rq.calls[k].fn ]

\* s is an initial part of t
IsPrefix(s, t) == Len(s) <= Len(t) /\ s = SubSeq(t, 1, Len(s))

\* C24: for an authenticated request to /extract, /summarize or /ask the
\* checks run in a fixed order: a missing id (for /ask also a missing or
\* empty question) is answered 400 without the file being looked up, even
\* when no such file exists; otherwise a file that does not exist is answered
\* 404 without being read; the file is read and the extraction started only
\* after both checks passed; the language-model backend is called only after
\* the extraction has returned a result.
C24_ChecksInOrder ==
    \A r \in Slots :
        LET rq == req[r]
        IN  (rq.op \in PdfOps /\ Entered(rq) /\ Authenticated(rq)) =>
              /\ MissingInput(rq) =>
                   /\ rq.pc = "done" /\ rq.response.status = 400
                   /\ rq.calls = << >> /\ rq.filePath = ""
              /\ (~MissingInput(rq) /\ ~ExistsSync(FilePath(rq.body["id"]))) =>
                   /\ rq.pc = "done" /\ rq.response.status = 404
                   /\ CallOrder(rq) = << "existsSync" >>
              /\ \/ IsPrefix(CallOrder(rq),
                             << "existsSync", "readFile", "getText", "recognize", "chat" >>)
                 \/ IsPrefix(CallOrder(rq),
                             << "existsSync", "readFile", "getText", "chat" >>)
              /\ Called(rq, "readFile") =>
                   /\ ~MissingInput(rq)
                   /\ ExistsSync(rq.filePath)
                   /\ rq.filePath = FilePath(rq.body["id"])
              /\ Called(rq, "chat") =>
                   /\ Extracted(rq)
                   /\ ~ExtractionFailed(rq)
                   /\ GetTextSettled(rq)
                   /\ Called(rq, "recognize") => RecognizeSettled(rq)

\* an authenticated /ask without a question for a file that does not exist
\* was answered 400, not 404
C24_Witness ==
    \E r \in Slots :
        /\ req[r].op = "ask" /\ req[r].pc = "done"
        /\ Authenticated(req[r])
        /\ ~Falsy(req[r].body, "id") /\ Falsy(req[r].body, "question")
        /\ ~ExistsSync(FilePath(req[r].body["id"]))
        /\ req[r].response.status = 400

\* C25: in /summarize and /ask with the cloud backend selected and no API
\* key configured, the credentials are checked only after the extraction:
\* 503 is sent only when the extraction, an OCR fallback included, completed
\* successfully, and a failed extraction is answered with the generic 500
\* although the credentials are missing; with the local backend selected a
\* missing API key never leads to 503.
C25_CredentialsAfterExtraction ==
    \A r \in Slots :
        LET rq == req[r]
        IN  (/\ rq.op \in { "summarize", "ask" } /\ rq.pc = "done"
             /\ config.OPENAI_API_KEY = "") =>
              /\ (config.AI_PROVIDER # "ollama" /\ rq.response.status = 503) =>
                   /\ Extracted(rq) /\ ~ExtractionFailed(rq)
                   /\ GetTextSettled(rq)
                   /\ Called(rq, "recognize") => RecognizeSettled(rq)
                   /\ ~Called(rq, "chat")
              /\ (config.AI_PROVIDER # "ollama" /\ Extracted(rq)) =>
                   rq.response.status = 503
              /\ (config.AI_PROVIDER # "ollama" /\ ExtractionFailed(rq)) =>
                   /\ rq.response.status = 500
                   /\ rq.response.error = "Internal Server Error"
              /\ config.AI_PROVIDER = "ollama" => rq.response.status # 503

-----------------------------------------------------------------------------
(* Properties of the stored files *)

\* path names something below the upload directory
UnderUploadDir(path) ==
    /\ Len(path) > Len(uploadDir) + 1
    /\ SubSeq(path, 1, Len(uploadDir) + 1) = uploadDir \o "/"

\* C26: the file /extract, /summarize and /ask look up and read is always
\* inside the upload directory: for every id accepted from the body, ids
\* with ".." segments included, the path handed to fs.existsSync and to
\* fs.promises.readFile names a file under uploadDir.
C26_ReadsStayInUploadDir ==
    \A r \in Slots :
        LET rq == req[r]
        IN  rq.op \in PdfOps =>
              /\ \A k \in 1..Len(rq.calls) :
                   rq.calls[k].fn \in { "existsSync", "readFile" } =>
                     UnderUploadDir(rq.calls[k].arg)
              /\ rq.fileBuffer # "" =>
                   (rq.filePath \in DOMAIN disk /\ rq.fileBuffer = disk[rq.filePath])

-----------------------------------------------------------------------------
(* Properties of the extraction result *)

\* the context of the prompt request rq has sent to /ask's backend
SentContext(rq) ==
    LET content == rq.sent[2].content
        lead == "Question: " \o rq.body["question"] \o "\n\nDocument:\n"
    IN  SubSeq(content, Len(lead) + 1, Len(content))

\* C27: in every result of extractPdfText the pages are empty only if the
\* text is empty: whenever the text is not empty, in particular whenever the
\* method is "pdf-parse" (whose text has 80 characters or more), there is at
\* least one page entry, so the context /ask sends is not empty.
C27_PagesWhenText ==
    \A r \in Slots :
        LET rq == req[r]
        IN  Extracted(rq) =>
              /\ rq.result.pages = << >> => rq.result.text = ""
              /\ rq.result.method = "pdf-parse" =>
                   /\ Len(rq.result.text) >= MIN_TEXT_LENGTH
                   /\ Len(rq.result.pages) >= 1
              /\ (rq.op = "ask" /\ Called(rq, "chat") /\ rq.result.text # "") =>
                   SentContext(rq) # ""

-----------------------------------------------------------------------------
(* Properties of the citation list *)

\* the position in s of the first marker whose digits denote n
FirstMarker(s, n) ==
    LET at == { m[1] : m \in { m \in Markers(s) :
                                 Decimal(SubSeq(s, m[1] + 3, m[2] - 1)) = n } }
    IN  CHOOSE p \in at : \A q \in at : p <= q

\* C28: the citations /ask returns hold no value twice and list the page
\* numbers cited in the order in which they first appear in the answer; two
\* markers whose digits denote the same number, as "[p.7]" and "[p.007]",
\* give one entry.
C28_CitationsFirstAppearance ==
    \A r \in Slots :
        LET rq == req[r]
            answer == rq.response.answer
            citations == rq.response.citations
        IN  Answered(rq) =>
              /\ \A i, j \in 1..Len(citations) : i # j => citations[i] # citations[j]
              /\ Range(citations) = MarkerValues(answer)
              /\ \A i, j \in 1..Len(citations) :
                   i < j => FirstMarker(answer, citations[i]) < FirstMarker(answer, citations[j])
              /\ \A m1, m2 \in Markers(answer) :
                   Decimal(SubSeq(answer, m1[1] + 3, m1[2] - 1))
                     = Decimal(SubSeq(answer, m2[1] + 3, m2[2] - 1)) =>
                   Cardinality({ k \in 1..Len(citations) :
                                   citations[k] = Decimal(SubSeq(answer, m1[1] + 3, m1[2] - 1)) }) = 1

\* an answer citing page 7 as "[p.7]" and as "[p.007]", and page 3 twice
\* after the first of them, was returned with the citations 7, 3
C28_Witness ==
    \E r \in Slots :
        /\ Answered(req[r])
        /\ req[r].response.answer = "See [p.7], then [p.3]; [p.007] and [p.3] again"
        /\ req[r].response.citations = << 7, 3 >>

-----------------------------------------------------------------------------
(* Properties of /upload *)

\* request rq is a finished /upload that carried a file part
UploadOf(rq) == rq.op = "upload" /\ rq.pc = "done" /\ DOMAIN rq.file # {}

\* the response of request rq returns no id and nothing was stored for it
NoIdReturned(rq) ==
    /\ "id" \notin rq.response.keys /\ rq.response.id = ""
    /\ ~Called(rq, "diskStorage")

\* a 201 of /upload returns as id the name under which the file is stored
\* in the upload directory, with the bytes uploaded
IdIsStoredName(rq) ==
    (UploadOf(rq) /\ rq.response.status = 201) =>
      /\ "id" \in rq.response.keys /\ rq.response.id # ""
      /\ rq.response.id \in StoredNames
      /\ rq.filePath = PathJoin(uploadDir, rq.response.id)
      /\ disk[rq.filePath] = rq.file.bytes

\* an authenticated request to /extract, /summarize or /ask with the name of
\* a stored file as id is not answered 404
StoredIdIsFound(rq) ==
    (/\ rq.op \in PdfOps /\ rq.pc = "done" /\ Authenticated(rq)
     /\ ~Falsy(rq.body, "id") /\ rq.body["id"] \in StoredNames) =>
      rq.response.status # 404

\* C29, as claimed: after a 201 of /upload the id returned is the stored
\* file name, so that a later authenticated /extract, /summarize or /ask with
\* it is never answered 404; an upload whose mimetype is not
\* "application/pdf" is answered 400 and an upload over 25 MiB 413, both
\* without an id.
C29_UploadContract ==
    \A r \in Slots :
        LET rq == req[r]
        IN  /\ IdIsStoredName(rq)
            /\ StoredIdIsFound(rq)
            /\ (UploadOf(rq) /\ rq.file.mimetype # "application/pdf") =>
                 (rq.response.status = 400 /\ NoIdReturned(rq))
            /\ (UploadOf(rq) /\ rq.file.size > MAX_FILE_SIZE) =>
                 (rq.response.status = 413 /\ NoIdReturned(rq))

\* C29, amended: as claimed, for an authenticated upload and with the
\* mimetype tested before the size: a mimetype other than "application/pdf"
\* is answered 400 whatever the size, a PDF over 25 MiB 413, and an upload
\* without valid credentials 401 before either test; none of the three
\* returns an id or stores a file.
C29_UploadContractInOrder ==
    \A r \in Slots :
        LET rq == req[r]
        IN  /\ IdIsStoredName(rq)
            /\ StoredIdIsFound(rq)
            /\ (UploadOf(rq) /\ ~ValidAuthorization(rq.headers)) =>
                 (rq.response.status = 401 /\ NoIdReturned(rq))
            /\ (/\ UploadOf(rq) /\ ValidAuthorization(rq.headers)
                /\ rq.file.mimetype # "application/pdf") =>
                 (rq.response.status = 400 /\ NoIdReturned(rq))
            /\ (/\ UploadOf(rq) /\ ValidAuthorization(rq.headers)
                /\ rq.file.mimetype = "application/pdf"
                /\ rq.file.size > MAX_FILE_SIZE) =>
                 (rq.response.status = 413 /\ NoIdReturned(rq))
            /\ (UploadOf(rq) /\ rq.response.status # 201) => NoIdReturned(rq)

\* an /extract with the id of an uploaded file was answered 200
C29_Witness ==
    \E r \in Slots :
        /\ req[r].op = "extract" /\ req[r].pc = "done"
        /\ Authenticated(req[r])
        /\ ~Falsy(req[r].body, "id")
        /\ req[r].body["id"] \in StoredNames
        /\ req[r].filePath \in DOMAIN disk
        /\ req[r].response.status = 200

\* ---------------------------------------------------------------------
\* The App component of the frontend (src/README.md): its state and its
\* handlers handleFileUpload, handleSummarize and handleAsk.  A handler
\* runs to its next await; the awaited call of the API stays in ui.calls
\* until the server's reply settles it, and replies arrive in any order.
\* ---------------------------------------------------------------------

\* the number of files the user hands to the drop zone
MaxUploads == 2

\* the number of calls of the API in flight at a time
MaxPending == 2

\* the number of messages of the chat
MaxMessages == 2

\* a state of type string | null that holds null; the component tests
\* these states for truthiness only, and "" is falsy as null is
Null == ""

\* the id POST /upload answers the n-th upload with: a fresh name each time
UploadId(n) == "file-" \o ToString(n) \o ".pdf"

\* what the server answers for the file of an id
ExtractedTextOf(id) == "text of " \o id
SummaryOf(id) == "summary of " \o id
AnswerOf(id) == "about " \o id \o " [p.1]"

\* what the user types into the question box
TypedQuestions == { " ", "Why? " }

\* the state of the component after its first render, signed in
InitialApp ==
    [ uploadState      |-> "idle",
      uploadedFile     |-> NoObject,
      extractionState  |-> "idle",
      extractedText    |-> Null,
      extractionMethod |-> Null,
      summaryState     |-> "idle",
      summaryText      |-> Null,
      questionInput    |-> "",
      askState         |-> "idle",
      messages         |-> <<>>,
      authToken        |-> CHOOSE token \in ValidTokens : TRUE,
      uploads          |-> 0,      \* history: the uploads started so far
      calls            |-> <<>> ]

\* the call of the API a handler awaits
ApiCall(fn, arg, n) == [ fn |-> fn, arg |-> arg, n |-> n ]

\* a sequence without its k-th element
RemoveAt(s, k) == SubSeq(s, 1, k - 1) \o SubSeq(s, k + 1, Len(s))

\* handleFiles / handleDrop: the drop zone and the file input hand the
\* first file to handleFileUpload, which resets the results on the page
\* (not uploadedFile) and awaits uploadPdf(file)
handleFileUpload ==
    /\ ui.uploads < MaxUploads
    /\ Len(ui.calls) < MaxPending
    /\ ui' = [ ui EXCEPT !.uploadState = "uploading",
                         !.extractedText = Null,
                         !.extractionMethod = Null,
                         !.extractionState = "idle",
                         !.summaryState = "idle",
                         !.summaryText = Null,
                         !.messages = <<>>,
                         !.questionInput = "",
                         !.askState = "idle",
                         !.uploads = @ + 1,
                         !.calls = Append(@, ApiCall("uploadPdf", "", ui.uploads + 1)) ]
    /\ UNCHANGED <<config, disk, req, users, registered>>

\* uploadPdf resolves: the file is recorded and extractText(result.id)
\* is awaited
UploadResolved(k) ==
    LET call == ui.calls[k]
        id == UploadId(call.n)
    IN
    /\ k <= Len(ui.calls)
    /\ call.fn = "uploadPdf"
    /\ ui' = [ ui EXCEPT !.uploadedFile = [ id |-> id ],
                         !.uploadState = "success",
                         !.extractionState = "extracting",
                         !.calls = [ @ EXCEPT ![k] = ApiCall("extractText", id, call.n) ] ]
    /\ UNCHANGED <<config, disk, req, users, registered>>

\* extractText resolves
ExtractResolved(k) ==
    LET call == ui.calls[k] IN
    /\ k <= Len(ui.calls)
    /\ call.fn = "extractText"
    /\ ui' = [ ui EXCEPT !.extractedText = ExtractedTextOf(call.arg),
                         !.extractionMethod = "pdf-parse",
                         !.extractionState = "success",
                         !.calls = RemoveAt(@, k) ]
    /\ UNCHANGED <<config, disk, req, users, registered>>

\* uploadPdf or extractText rejects: the catch of handleFileUpload
UploadRejected(k) ==
    /\ k <= Len(ui.calls)
    /\ ui.calls[k].fn \in { "uploadPdf", "extractText" }
    /\ ui' = [ ui EXCEPT !.uploadState = "error",
                         !.extractionState = "error",
                         !.calls = RemoveAt(@, k) ]
    /\ UNCHANGED <<config, disk, req, users, registered>>

\* a click on "Generate summary", enabled with a recorded file, no
\* summary under way and a token: handleSummarize awaits
\* summarizeDocument(uploadedFile.id)
handleSummarize ==
    /\ ui.uploadedFile # NoObject
    /\ ui.summaryState # "summarizing"
    /\ ui.authToken # Null
    /\ Len(ui.calls) < MaxPending
    /\ ui' = [ ui EXCEPT !.summaryState = "summarizing",
                         !.calls = Append(@, ApiCall("summarizeDocument",
                                                  ui.uploadedFile.id, ui.uploads)) ]
    /\ UNCHANGED <<config, disk, req, users, registered>>

\* summarizeDocument resolves
SummarizeResolved(k) ==
    LET call == ui.calls[k] IN
    /\ k <= Len(ui.calls)
    /\ call.fn = "summarizeDocument"
    /\ ui' = [ ui EXCEPT !.summaryText = SummaryOf(call.arg),
                         !.summaryState = "success",
                         !.calls = RemoveAt(@, k) ]
    /\ UNCHANGED <<config, disk, req, users, registered>>

\* summarizeDocument rejects
SummarizeRejected(k) ==
    /\ k <= Len(ui.calls)
    /\ ui.calls[k].fn = "summarizeDocument"
    /\ ui' = [ ui EXCEPT !.summaryState = "error",
                         !.calls = RemoveAt(@, k) ]
    /\ UNCHANGED <<config, disk, req, users, registered>>

\* the question box changes
TypeQuestion(text) ==
    /\ ui.questionInput # text
    /\ ui' = [ ui EXCEPT !.questionInput = text ]
    /\ UNCHANGED <<config, disk, req, users, registered>>

\* a click on "Ask", enabled with a recorded file, no question under way
\* and a token: handleAsk returns on a blank question, else it shows the
\* question and awaits askQuestion(uploadedFile.id, question)
handleAsk ==
    /\ ui.uploadedFile # NoObject
    /\ ui.askState # "asking"
    /\ ui.authToken # Null
    /\ Len(ui.calls) < MaxPending
    /\ Len(ui.messages) < MaxMessages
    /\ IF Trim(ui.questionInput) = ""
       THEN UNCHANGED ui
       ELSE ui' = [ ui EXCEPT !.questionInput = "",
                              !.askState = "asking",
                              !.messages = Append(@, [ role |-> "user",
                                                       content |-> Trim(ui.questionInput) ]),
                              !.calls = Append(@, ApiCall("askQuestion",
                                                       ui.uploadedFile.id, ui.uploads)) ]
    /\ UNCHANGED <<config, disk, req, users, registered>>

\* askQuestion resolves: the answer joins the chat
AskResolved(k) ==
    LET call == ui.calls[k] IN
    /\ k <= Len(ui.calls)
    /\ call.fn = "askQuestion"
    /\ ui' = [ ui EXCEPT !.messages = Append(@, [ role |-> "assistant",
                                                  content |-> AnswerOf(call.arg) ]),
                         !.askState = "idle",
                         !.calls = RemoveAt(@, k) ]
    /\ UNCHANGED <<config, disk, req, users, registered>>

\* askQuestion rejects
AskRejected(k) ==
    /\ k <= Len(ui.calls)
    /\ ui.calls[k].fn = "askQuestion"
    /\ ui' = [ ui EXCEPT !.askState = "error",
                         !.calls = RemoveAt(@, k) ]
    /\ UNCHANGED <<config, disk, req, users, registered>>

InitUI ==
    /\ config = [ AI_PROVIDER |-> "openai", OPENAI_API_KEY |-> "sk-test",
                  JWT_SECRET |-> DEFAULT_JWT_SECRET ]
    /\ disk = NoObject
    /\ req = [ r \in Slots |-> Idle ]
    /\ users = NoObject
    /\ registered = {}
    /\ ui = InitialApp

NextUI ==
    \/ handleFileUpload
    \/ handleSummarize
    \/ \E text \in TypedQuestions : TypeQuestion(text)
    \/ handleAsk
    \/ \E k \in 1..MaxPending : UploadResolved(k)
    \/ \E k \in 1..MaxPending : ExtractResolved(k)
    \/ \E k \in 1..MaxPending : UploadRejected(k)
    \/ \E k \in 1..MaxPending : SummarizeResolved(k)
    \/ \E k \in 1..MaxPending : SummarizeRejected(k)
    \/ \E k \in 1..MaxPending : AskResolved(k)
    \/ \E k \in 1..MaxPending : AskRejected(k)

SpecUI == InitUI /\ [][NextUI]_vars

\* ---------------------------------------------------------------------
\* What the page shows
\* ---------------------------------------------------------------------

\* the extraction preview, the summary and the answers on the page
ShownText == IF ui.extractionState = "success" THEN ui.extractedText ELSE Null
ShownSummary == IF ui.summaryState = "success" THEN ui.summaryText ELSE Null
ShownAnswers ==
    { ui.messages[i].content : i \in { j \in DOMAIN ui.messages :
                                         ui.messages[j].role = "assistant" } }

\* the results of the file of an id
ResultsOf(id) == { ExtractedTextOf(id), SummaryOf(id), AnswerOf(id) }

\* C30: every extracted text, summary and answer on the page is a result
\* of the file recorded in uploadedFile, and that file is the one of the
\* newest upload started: no result of an earlier file is on the page
\* once a newer upload has started
C30_ShownResultsOfNewestFile ==
    \A shown \in ({ ShownText, ShownSummary } \cup ShownAnswers) \ { Null } :
        /\ ui.uploadedFile # NoObject
        /\ shown \in ResultsOf(ui.uploadedFile.id)
        /\ shown \in ResultsOf(UploadId(ui.uploads))

====
